---- MODULE Spec2Model ----
(***************************************************************************)
(* Model of tajweed.py: the Removal and Restoral rule tables, the rule     *)
(* application pass (apply_rules) and the evaluation run (--eval) that     *)
(* applies both tables, compares the traces and the texts and sweeps the   *)
(* de-tajweed-ized tokens for residual marks.                              *)
(*                                                                         *)
(* A character is its Unicode code point, written in hexadecimal           *)
(* (\h0645 is MEEM); a text is a sequence of characters.  A regular        *)
(* expression is a sequence of nodes, matched with the backtracking        *)
(* priorities of Python's re module.                                       *)
(***************************************************************************)
EXTENDS Integers, Sequences, FiniteSets, TLC

(***************************************************************************)
(* Character classes, tajweed.py lines 60-67.                              *)
(***************************************************************************)
HAMZA == {\h0621,\h0623,\h0625,\h0624,\h0626}

ITHHAR == HAMZA \cup {\h062D,\h062E,\h0639,\h063A,\h0647}

IDGHAM == {\h0646,\h0645,\h0648,\h06CC,\h0644,\h0631}

IKHFA2 == {\h062A,\h062B,\h062C,\h062F,\h0630,\h0632,\h0633,\h0634,\h0635,\h0636,\h0637,\h0638,\h0641,\h0642,\h0643}

CONS == {\h0628} \cup ITHHAR \cup IDGHAM \cup IKHFA2

\* [ۖۗۘۙۚۛ]: the quranic stops U+06D6 - U+06DB
QSTOPS_REGEX == {\h06D6,\h06D7,\h06D8,\h06D9,\h06DA,\h06DB}

(***************************************************************************)
(* Index sets, tajweed.py lines 69-120 and 469-486.                        *)
(***************************************************************************)
MADD_HMZ_EXCEPTION ==
  {<<2,72,4>>}

EXCLUDE_INDEXES_MIN_Y_2 ==
  {<<5,81,5>>, <<7,158,23>>, <<9,113,3>>, <<9,117,5>>, <<33,30,2>>, <<33,32,2>>, <<33,38,4>>, <<33,50,33>>,
   <<33,53,7>>, <<33,56,6>>, <<49,2,9>>}

EXCLUDE_INDEXES_SIL_1 ==
  {<<2,160,9>>, <<9,94,13>>, <<15,49,5>>, <<15,89,3>>, <<20,13,1>>, <<20,14,2>>, <<27,9,3>>, <<28,30,16>>}

EXCLUDE_INDEXES_SIL_5 ==
  {<<7,189,22>>}

MITHL_yy_EXCLUDE_INDEXES ==
  {<<51,47,3>>}

\* variant of RESTRICT_INDEXES_MIN_Y_4: without the index of Q.25:69:7
RESTRICT_INDEXES_MIN_Y_4_short ==
  {<<2,258,22>>, <<7,103,9>>, <<7,127,17>>, <<10,75,9>>, <<11,97,3>>, <<12,101,15>>, <<15,23,3>>,
   <<23,46,3>>, <<28,4,14>>, <<28,32,21>>, <<30,24,11>>, <<33,53,32>>, <<33,53,36>>,
   <<43,46,7>>, <<50,43,3>>}

RESTRICT_INDEXES_MIN_Y_4 ==
  {<<2,258,22>>, <<7,103,9>>, <<7,127,17>>, <<10,75,9>>, <<11,97,3>>, <<12,101,15>>, <<15,23,3>>,
   <<23,46,3>>, <<25,69,7>>, <<28,4,14>>, <<28,32,21>>, <<30,24,11>>, <<33,53,32>>, <<33,53,36>>,
   <<43,46,7>>, <<50,43,3>>}

RESTRICT_INDEXES_MIN_5 ==
  {<<3,20,13>>, <<3,75,30>>, <<3,79,21>>, <<5,111,4>>, <<61,14,12>>, <<62,2,5>>}

RESTRICT_INDEXES_SIL_6 ==
  {<<5,18,5>>, <<5,29,12>>, <<5,33,2>>, <<6,5,8>>, <<6,94,21>>, <<10,4,8>>, <<10,34,6>>, <<10,34,12>>,
   <<11,87,16>>, <<12,85,3>>, <<14,9,3>>, <<14,21,5>>, <<16,48,9>>, <<20,18,4>>, <<20,119,3>>, <<23,24,2>>,
   <<24,8,1>>, <<25,77,3>>, <<26,6,4>>, <<26,197,7>>, <<27,29,3>>, <<27,32,3>>, <<27,38,3>>, <<27,64,2>>,
   <<30,11,2>>, <<30,13,6>>, <<30,27,3>>, <<35,28,13>>, <<37,106,4>>, <<38,21,4>>, <<40,47,6>>, <<40,50,12>>,
   <<42,21,3>>, <<42,40,1>>, <<43,18,2>>, <<59,17,9>>, <<60,4,14>>, <<64,5,3>>, <<75,13,1>>}

RESTRICT_INDEXES_SIL_7 ==
  {<<2,179,5>>, <<2,197,28>>, <<2,269,15>>, <<3,7,45>>, <<3,13,28>>, <<3,18,9>>, <<3,119,2>>, <<3,190,10>>,
   <<4,8,4>>, <<4,59,8>>, <<4,83,15>>, <<4,95,7>>, <<5,100,12>>, <<7,145,18>>, <<8,75,10>>, <<9,86,11>>,
   <<9,113,11>>, <<11,116,7>>, <<12,111,6>>, <<13,19,15>>, <<14,52,12>>, <<17,5,9>>, <<20,54,8>>,
   <<20,84,3>>, <<20,128,16>>, <<21,37,5>>, <<24,22,3>>, <<24,22,9>>, <<24,31,51>>, <<24,44,9>>, <<27,33,3>>,
   <<27,33,5>>, <<28,76,18>>, <<33,6,8>>, <<35,1,13>>, <<38,29,8>>, <<38,43,9>>, <<38,45,6>>, <<39,9,23>>,
   <<39,18,12>>, <<39,21,30>>, <<40,54,3>>, <<46,35,4>>, <<48,16,8>>, <<59,2,39>>, <<65,4,15>>, <<65,6,13>>,
   <<65,10,8>>, <<73,11,3>>}

RESTRICT_INDEXES_MIN_U_7 ==
  {<<4,135,30>>, <<18,16,7>>}

RESTRICT_INDEXES_SIL_8 ==
  {<<2,259,19>>, <<2,259,35>>, <<2,261,16>>, <<8,65,13>>, <<8,65,17>>, <<8,66,12>>, <<8,66,15>>, <<18,25,5>>,
   <<24,2,7>>, <<37,147,3>>}

RESTRICT_INDEXES_SIL_9 ==
  {<<3,144,10>>, <<6,34,21>>, <<7,103,9>>, <<10,75,9>>, <<10,83,12>>, <<11,97,3>>, <<21,34,7>>, <<23,46,3>>,
   <<28,32,21>>, <<43,46,7>>}

RESTRICT_INDEXES_SIL_A ==
  {<<2,275,3>>, <<2,275,20>>, <<2,275,25>>, <<2,276,3>>, <<2,278,10>>, <<3,130,6>>, <<4,135,30>>,
   <<4,161,2>>, <<4,176,8>>, <<11,68,7>>, <<13,30,10>>, <<18,14,12>>, <<18,16,7>>, <<25,38,2>>, <<29,38,2>>,
   <<30,39,5>>, <<38,67,3>>, <<43,13,1>>, <<44,33,6>>, <<47,4,28>>, <<47,31,7>>, <<53,51,1>>, <<76,4,4>>,
   <<76,16,1>>}

EXCEPTIONS_SUKUN ==
  {<<2,1,5>>, <<3,1,5>>, <<7,1,5>>, <<10,1,5>>, <<11,1,5>>, <<12,1,5>>, <<13,1,5>>, <<14,1,5>>, <<15,1,5>>,
   <<19,1,5>>, <<20,1,5>>, <<26,1,5>>, <<27,1,5>>, <<28,1,5>>, <<29,1,5>>, <<30,1,5>>, <<31,1,5>>,
   <<32,1,5>>, <<36,1,5>>, <<38,1,5>>, <<39,69,7>>, <<40,1,5>>, <<41,1,5>>, <<42,1,5>>, <<42,2,1>>,
   <<43,1,5>>, <<44,1,5>>, <<45,1,5>>, <<46,1,5>>, <<50,1,5>>, <<51,47,3>>, <<68,1,5>>, <<89,23,1>>}

(***************************************************************************)
(* Regular expressions.  Nodes of a pattern:                               *)
(*   In(S)      [..] a character of S          NotIn(S)  [^..]             *)
(*   Dot        .                              Bol, Eol  ^ and $           *)
(*   Grp(n, A)  group number n (0: non-capturing) of the alternatives A    *)
(*   Opt(p)     p?  (greedy)                                               *)
(*   Ahead(p)   (?=p)   NotAhead(p)  (?!p)                                 *)
(*   Behind(p)  (?<=p)  NotBehind(p) (?<!p)                                *)
(* L(s) is the pattern of the literal text s.  A replacement template is a *)
(* sequence of characters and group references, \1 written -1.             *)
(***************************************************************************)
Node(k, s, n, a) == [k |-> k, s |-> s, n |-> n, a |-> a, i |-> 0]

In(S) == Node("in", S, 0, <<>>)

NotIn(S) == Node("notin", S, 0, <<>>)

Dot == Node("any", {}, 0, <<>>)

Bol == Node("bol", {}, 0, <<>>)

Eol == Node("eol", {}, 0, <<>>)

Grp(n, alts) == Node("grp", {}, n, alts)

Opt(p) == Node("opt", {}, 0, <<p>>)

Ahead(p) == Node("ahead", {}, 0, <<p>>)

NotAhead(p) == Node("notahead", {}, 0, <<p>>)

Behind(p) == Node("behind", {}, 0, <<p>>)

NotBehind(p) == Node("notbehind", {}, 0, <<p>>)

L(s) == [j \in 1..Len(s) |-> In({s[j]})]

\* internal: the end of group n opened at position i; the position must be i
Close(n, i) == [k |-> "close", s |-> {}, n |-> n, a |-> <<>>, i |-> i]

At(i) == [k |-> "at", s |-> {}, n |-> 0, a |-> <<>>, i |-> i]

NoMatch == [ok |-> FALSE, b |-> 0, e |-> 0, g |-> <<>>]

\* the match of pattern p against str that starts at offset i (0-based) with the
\* groups g captured so far: the first success in backtracking order
RECURSIVE MatchHere(_, _, _, _)
RECURSIVE FirstAlt(_, _, _, _, _, _)
RECURSIVE EndsAt(_, _, _, _)
MatchHere(p, str, i, g) ==
  IF Len(p) = 0 THEN [ok |-> TRUE, b |-> i, e |-> i, g |-> g]
  ELSE LET nd == Head(p)
           rest == Tail(p)
       IN CASE nd.k = "in" ->
                 IF i < Len(str) /\ str[i+1] \in nd.s
                 THEN MatchHere(rest, str, i+1, g) ELSE NoMatch
            [] nd.k = "notin" ->
                 IF i < Len(str) /\ str[i+1] \notin nd.s
                 THEN MatchHere(rest, str, i+1, g) ELSE NoMatch
            [] nd.k = "any" ->
                 IF i < Len(str) THEN MatchHere(rest, str, i+1, g) ELSE NoMatch
            [] nd.k = "bol" ->
                 IF i = 0 THEN MatchHere(rest, str, i, g) ELSE NoMatch
            [] nd.k = "eol" ->
                 IF i = Len(str) THEN MatchHere(rest, str, i, g) ELSE NoMatch
            [] nd.k = "at" ->
                 IF i = nd.i THEN MatchHere(rest, str, i, g) ELSE NoMatch
            [] nd.k = "grp" ->
                 FirstAlt(nd.a, 1, <<Close(nd.n, i)>> \o rest, str, i, g)
            [] nd.k = "close" ->
                 MatchHere(rest, str, i,
                           IF nd.n = 0 THEN g ELSE (nd.n :> <<nd.i, i>>) @@ g)
            [] nd.k = "opt" ->
                 LET r == MatchHere(nd.a[1] \o rest, str, i, g)
                 IN IF r.ok THEN r ELSE MatchHere(rest, str, i, g)
            [] nd.k = "ahead" ->
                 IF MatchHere(nd.a[1], str, i, g).ok
                 THEN MatchHere(rest, str, i, g) ELSE NoMatch
            [] nd.k = "notahead" ->
                 IF MatchHere(nd.a[1], str, i, g).ok
                 THEN NoMatch ELSE MatchHere(rest, str, i, g)
            [] nd.k = "behind" ->
                 IF EndsAt(nd.a[1], str, i, i)
                 THEN MatchHere(rest, str, i, g) ELSE NoMatch
            [] nd.k = "notbehind" ->
                 IF EndsAt(nd.a[1], str, i, i)
                 THEN NoMatch ELSE MatchHere(rest, str, i, g)

\* the alternatives alts[j..] of a group, in order, each followed by rest
FirstAlt(alts, j, rest, str, i, g) ==
  IF j > Len(alts) THEN NoMatch
  ELSE LET r == MatchHere(alts[j] \o rest, str, i, g)
       IN IF r.ok THEN r ELSE FirstAlt(alts, j+1, rest, str, i, g)

\* a look-behind: p matches some str[j+1..i], j <= from
EndsAt(p, str, i, from) ==
  \/ MatchHere(p \o <<At(i)>>, str, from, <<>>).ok
  \/ from > 0 /\ EndsAt(p, str, i, from - 1)

\* re.search from offset j: the leftmost match
RECURSIVE Search(_, _, _)
Found(r, p, str, j) == IF r.ok THEN [r EXCEPT !.b = j] ELSE Search(p, str, j+1)

Search(p, str, j) ==
  IF j > Len(str) THEN NoMatch ELSE Found(MatchHere(p, str, j, <<>>), p, str, j)

re_search(p, str) == Search(p, str, 0).ok

\* the expansion of a replacement template for a match with groups g; a group
\* that did not take part in the match expands to the empty text
RECURSIVE Expand(_, _, _)
\* variant of Expand: the group references of the template are dropped
IsChar(x) == x > 0

Expand_literal(repl, str, g) == SelectSeq(repl, IsChar)

Expand(repl, str, g) ==
  IF Len(repl) = 0 THEN <<>>
  ELSE LET x == Head(repl)
       IN (IF x > 0 THEN <<x>>
           ELSE IF (-x) \in DOMAIN g THEN SubSeq(str, g[-x][1] + 1, g[-x][2])
           ELSE <<>>) \o Expand(Tail(repl), str, g)

\* re.subn on str[j+1..]: every non-overlapping match, left to right, replaced;
\* the new text and the number of replacements (no pattern of the tables
\* matches the empty text: after such a match one character is copied)
RECURSIVE SubnFrom(_, _, _, _)
Replaced(m, rest, repl, str, j) ==
  [str |-> SubSeq(str, j+1, m.b) \o Expand(repl, str, m.g)
           \o (IF m.e > m.b \/ m.b >= Len(str) THEN <<>> ELSE <<str[m.b+1]>>) \o rest.str,
   cnt |-> rest.cnt + 1]

Subn(m, p, repl, str, j) ==
  IF ~m.ok THEN [str |-> SubSeq(str, j+1, Len(str)), cnt |-> 0]
  ELSE IF m.e > m.b
  THEN Replaced(m, SubnFrom(p, repl, str, m.e), repl, str, j)
  ELSE IF m.b >= Len(str)
  THEN Replaced(m, [str |-> <<>>, cnt |-> 0], repl, str, j)
  ELSE Replaced(m, SubnFrom(p, repl, str, m.b + 1), repl, str, j)

SubnFrom(p, repl, str, j) == Subn(Search(p, str, j), p, repl, str, j)

\* variant of re_subn: the matches are deleted, the replacement is not written
re_subn_delete(p, repl, str) == SubnFrom(p, <<>>, str, 0)

re_subn(p, repl, str) == SubnFrom(p, repl, str, 0)

re_sub(p, repl, str) == re_subn(p, repl, str).str

(***************************************************************************)
(* The rule tables.  A rule is the 8-tuple of the source, flattened:       *)
(*   id_rule, ((tok_pre, tok_post), (repl_pre, repl_post)), (pat, repl),   *)
(*   FILTER_POS, except_ind, except_lemas, force_ind, restrict_ind.        *)
(* None is Python's None for a pattern or a replacement (falsy, like the   *)
(* empty text); NoPOS is None for FILTER_POS.                              *)
(***************************************************************************)
None == <<>>

NoPOS == ""

\* variant of Rule: every entry carries the same id
Rule_same_id(id_rule, tok_pre, tok_post, repl_pre, repl_post, pat, repl, FILTER_POS, except_ind, except_lemas, force_ind, restrict_ind) ==
  [id_rule |-> "M1", tok_pre |-> tok_pre, tok_post |-> tok_post,
   repl_pre |-> repl_pre, repl_post |-> repl_post, pat |-> pat, repl |-> repl,
   FILTER_POS |-> FILTER_POS, except_ind |-> except_ind,
   except_lemas |-> except_lemas, force_ind |-> force_ind,
   restrict_ind |-> restrict_ind]

Rule(id_rule, tok_pre, tok_post, repl_pre, repl_post, pat, repl, FILTER_POS, except_ind, except_lemas, force_ind, restrict_ind) ==
  [id_rule |-> id_rule, tok_pre |-> tok_pre, tok_post |-> tok_post,
   repl_pre |-> repl_pre, repl_post |-> repl_post, pat |-> pat, repl |-> repl,
   FILTER_POS |-> FILTER_POS, except_ind |-> except_ind,
   except_lemas |-> except_lemas, force_ind |-> force_ind,
   restrict_ind |-> restrict_ind]

REMOVE_SANDHI_RULES == <<
  \* line 144
  Rule("M1", L(<<\h0645>>), L(<<\h0628>>), <<\h0645,\h06E1>>, <<\h0628>>,
       None, None, NoPOS, {}, {}, {}, {}),
  \* line 146
  Rule("M2", L(<<\h0645>>), L(<<\h0645,\h0651>>), <<\h0645,\h06E1>>, <<\h0645>>,
       None, None, NoPOS, {}, {}, {}, {}),
  \* line 153
  Rule("N2.1.1.A", L(<<\h0646>>), <<Grp(1, <<<<In({\h0645,\h0646})>>>>)>> \o L(<<\h0651>>), <<\h0646,\h06E1>>, <<-1>>,
       None, None, NoPOS, {}, {}, {}, {}),
  \* line 155
  Rule("N2.1.1.B", L(<<\h08F0>>) \o <<Grp(1, <<<<Opt(<<In({\h0627,\h06CC})>>)>>>>)>>, <<Grp(1, <<<<In({\h0645,\h0646})>>>>)>> \o L(<<\h0651>>), <<\h064B,-1>>, <<-1>>,
       None, None, NoPOS, {}, {}, {}, {}),
  \* line 157
  Rule("N2.1.1.C", L(<<\h08F1>>) \o <<Opt(<<Grp(1, <<L(<<\h0627,\h06DF>>)>>)>>)>>, <<Grp(1, <<<<In({\h0645,\h0646})>>>>)>> \o L(<<\h0651>>), <<\h064C,-1>>, <<-1>>,
       None, None, NoPOS, {}, {}, {}, {}),
  \* line 159
  Rule("N2.1.1.D", L(<<\h08F2>>), <<Grp(1, <<<<In({\h0645,\h0646})>>>>)>> \o L(<<\h0651>>), <<\h064D>>, <<-1>>,
       None, None, NoPOS, {}, {}, {}, {}),
  \* line 164
  Rule("N2.1.2.A", L(<<\h0646>>), <<In({\h0648,\h06CC})>>, <<\h0646,\h06E1>>, None,
       None, None, NoPOS, {}, {}, {}, {}),
  \* line 166
  Rule("N2.1.2.B", L(<<\h08F0>>) \o <<Grp(1, <<<<Opt(<<In({\h0627,\h06CC})>>)>>>>)>>, <<In({\h0648,\h06CC})>>, <<\h064B,-1>>, None,
       None, None, NoPOS, {}, {}, {}, {}),
  \* line 168
  Rule("N2.1.2.C", L(<<\h08F1>>), <<In({\h0648,\h06CC})>>, <<\h064C>>, None,
       None, None, NoPOS, {}, {}, {}, {}),
  \* line 170
  Rule("N2.1.2.D", L(<<\h08F2>>), <<In({\h0648,\h06CC})>>, <<\h064D>>, None,
       None, None, NoPOS, {}, {}, {}, {}),
  \* line 172
  Rule("N2.2.A", L(<<\h0646>>), <<Grp(1, <<<<In({\h0631,\h0644})>>>>)>> \o L(<<\h0651>>), <<\h0646,\h06E1>>, <<-1>>,
       None, None, NoPOS, {}, {}, {}, {}),
  \* line 174
  Rule("N2.2.B", L(<<\h08F0>>) \o <<Grp(1, <<<<Opt(<<In({\h0627,\h06CC})>>)>>>>)>>, <<Grp(1, <<<<In({\h0631,\h0644})>>>>)>> \o L(<<\h0651>>), <<\h064B,-1>>, <<-1>>,
       None, None, NoPOS, {}, {}, {}, {}),
  \* line 176
  Rule("N2.2.C", L(<<\h08F1>>), <<Grp(1, <<<<In({\h0631,\h0644})>>>>)>> \o L(<<\h0651>>), <<\h064C>>, <<-1>>,
       None, None, NoPOS, {}, {}, {}, {}),
  \* line 178
  Rule("N2.2.D", L(<<\h08F2>>), <<Grp(1, <<<<In({\h0631,\h0644})>>>>)>> \o L(<<\h0651>>), <<\h064D>>, <<-1>>,
       None, None, NoPOS, {}, {}, {}, {}),
  \* line 180
  Rule("N3.A", L(<<\h0646,\h06E2>>), L(<<\h0628>>), <<\h0646,\h06E1>>, None,
       L(<<\h0646,\h06E2>>) \o <<Ahead(L(<<\h0628>>))>>, <<\h0646,\h06E1>>, NoPOS, {}, {}, {}, {}),
  \* line 182
  Rule("N3.B", L(<<\h064E,\h06E2>>) \o <<Opt(<<Grp(1, <<L(<<\h0627>>)>>)>>)>>, L(<<\h0628>>), <<\h064B,-1>>, None,
       None, None, NoPOS, {}, {}, {}, {}),
  \* line 184
  Rule("N3.C", L(<<\h064F,\h06E2>>), L(<<\h0628>>), <<\h064C>>, None,
       None, None, NoPOS, {}, {}, {}, {}),
  \* line 186
  Rule("N3.D", L(<<\h0650,\h06ED>>), L(<<\h0628>>), <<\h064D>>, None,
       None, None, NoPOS, {}, {}, {}, {}),
  \* line 190
  Rule("N4.A", L(<<\h0646>>), <<Ahead(<<In(IKHFA2)>>)>>, <<\h0646,\h06E1>>, None,
       L(<<\h0646>>) \o <<Ahead(<<In(IKHFA2)>>)>>, <<\h0646,\h06E1>>, NoPOS, {}, {}, {}, {}),
  \* line 192
  Rule("N4.B", L(<<\h08F0>>) \o <<Opt(<<Grp(1, <<<<In({\h0627,\h06CC})>>>>)>>)>>, <<Ahead(<<In(IKHFA2)>>)>>, <<\h064B,-1>>, None,
       None, None, NoPOS, {}, {}, {}, {}),
  \* line 194
  Rule("N4.C", L(<<\h08F1>>), <<Ahead(<<In(IKHFA2)>>)>>, <<\h064C>>, None,
       None, None, NoPOS, {}, {}, {}, {}),
  \* line 196
  Rule("N4.D", L(<<\h08F2>>), <<Ahead(<<In(IKHFA2)>>)>>, <<\h064D>>, None,
       None, None, NoPOS, {}, {}, {}, {}),
  \* line 203
  Rule("MADD-hmz", <<Grp(1, <<L(<<\h064E,\h0627>>),L(<<\h064E,\h06CC,\h0670>>),L(<<\h064F>>) \o <<In({\h0648,\h06E5})>>,L(<<\h0650>>) \o <<In({\h06CC,\h06E6})>>>>)>> \o L(<<\h0653>>), <<Grp(0, <<<<In(HAMZA)>>,<<In({\h0649,\h06CC})>> \o L(<<\h0655>>),L(<<\h0654>>)>>)>>, <<-1>>, None,
       <<Grp(1, <<L(<<\h064E>>) \o <<In({\h0627,\h0670})>>,L(<<\h064F>>) \o <<In({\h0648,\h06E5})>>,L(<<\h0650>>) \o <<In({\h06CC,\h06E6})>>>>)>> \o L(<<\h0653>>) \o <<Ahead(<<Opt(L(<<\h0640>>))>> \o <<Grp(0, <<<<In(HAMZA)>>,<<In({\h0649,\h06CC})>> \o L(<<\h0655>>),L(<<\h0654>>)>>)>>)>>, <<-1>>, NoPOS, MADD_HMZ_EXCEPTION, {}, {}, {}),
  \* line 204
  Rule("MADD-hmz-A-sil", L(<<\h064F,\h0648,\h0653,\h0627,\h06DF>>), <<Grp(0, <<<<In(HAMZA)>>,<<In({\h0649,\h06CC})>> \o L(<<\h0655>>)>>)>>, <<\h064F,\h0648,\h0627,\h06DF>>, None,
       None, None, NoPOS, {}, {}, {}, {}),
  \* line 205
  Rule("MADD-hmz-sp-1", None, None, None, None,
       L(<<\h062A,\h064E,\h0644,\h06E1,\h0648,\h064F,\h06E5,\h0653,\h0627,\h06DF>>), <<\h062A,\h064E,\h0644,\h06E1,\h0648,\h064F,\h06E5,\h0627,\h06DF>>, NoPOS, {}, {}, {}, {}),
  \* line 206
  Rule("MADD-hmz-sp-2", None, None, None, None,
       L(<<\h0641,\h064E,\h0623,\h06E1,\h0648,\h064F,\h06E5,\h0653,\h0627,\h06DF>>), <<\h0641,\h064E,\h0623,\h06E1,\h0648,\h064F,\h06E5,\h0627,\h06DF>>, NoPOS, {}, {}, {}, {}),
  \* line 207
  Rule("MADD-hmz-sp-3", None, None, None, None,
       L(<<\h0648,\h064E,\h062C,\h0650,\h0627,\h06DF,\h06CC,\h0653,\h0621,\h064E>>), <<\h0648,\h064E,\h062C,\h0650,\h0627,\h06DF,\h06CC,\h0621,\h064E>>, NoPOS, {}, {}, {}, {}),
  \* line 208
  Rule("MADD-hmz-sp-4", L(<<\h0671,\h0644,\h0631,\h0651,\h0650,\h0628,\h064E,\h0648,\h0670,\h0653,\h0627,\h06DF>>), <<In(HAMZA)>>, <<\h0671,\h0644,\h0631,\h0651,\h0650,\h0628,\h064E,\h0648,\h0670,\h0627,\h06DF>>, None,
       None, None, NoPOS, {}, {}, {}, {}),
  \* line 214
  Rule("MADD-lzm", None, None, None, None,
       <<Grp(1, <<L(<<\h064E>>) \o <<In({\h0627,\h0670})>>,L(<<\h064F,\h0648>>),L(<<\h0650,\h06CC>>)>>)>> \o L(<<\h0653>>) \o <<Ahead(<<In(CONS)>> \o <<In({\h0621,\h0623,\h0624,\h0625,\h0626,\h0628,\h062A,\h062B,\h062C,\h062D,\h062E,\h062F,\h0630,\h0631,\h0632,\h0633,\h0634,\h0635,\h0636,\h0637,\h0638,\h0639,\h063A,\h0641,\h0642,\h0643,\h0644,\h0645,\h0646,\h0647,\h0648,\h0651,\h0652,\h06CC})>>)>>, <<-1>>, NoPOS, {}, {}, {}, {}),
  \* line 216
  Rule("MADD-shdd-skn", None, None, None, None,
       L(<<\h064E,\h0627,\h0653>>) \o <<Grp(1, <<<<In(CONS)>>>>)>> \o <<Ahead(<<In({\h0651,\h06E1})>>)>>, <<\h064E,\h0627,-1>>, NoPOS, {}, {}, {}, {}),
  \* line 219
  Rule("MADD-sp-1", None, None, None, None,
       <<Bol>> \o L(<<\h0627,\h0644,\h0653,\h0645,\h0653>>) \o <<Eol>>, <<\h0627,\h0644,\h0645>>, NoPOS, {}, {}, {}, {}),
  \* line 220
  Rule("MADD-sp-2", None, None, None, None,
       <<Bol>> \o L(<<\h0637,\h0633,\h0653,\h0645,\h0653>>) \o <<Eol>>, <<\h0637,\h0633,\h0645>>, NoPOS, {}, {}, {}, {}),
  \* line 221
  Rule("MADD-sp-3", None, None, None, None,
       <<Bol>> \o L(<<\h0637,\h0633,\h0653>>) \o <<Eol>>, <<\h0637,\h0633>>, NoPOS, {}, {}, {}, {}),
  \* line 222
  Rule("MADD-sp-4", None, None, None, None,
       <<Bol>> \o L(<<\h06CC,\h0633,\h0653>>) \o <<Eol>>, <<\h06CC,\h0633>>, NoPOS, {}, {}, {}, {}),
  \* line 223
  Rule("MADD-sp-5", None, None, None, None,
       <<Bol>> \o L(<<\h062D,\h0645,\h0653>>) \o <<Eol>>, <<\h062D,\h0645>>, NoPOS, {}, {}, {}, {}),
  \* line 224
  Rule("MADD-sp-6", None, None, None, None,
       <<Bol>> \o L(<<\h0643,\h0653,\h0647,\h06CC,\h0639,\h0653,\h0635,\h0653>>) \o <<Eol>>, <<\h0643,\h0647,\h06CC,\h0639,\h0635>>, NoPOS, {}, {}, {}, {}),
  \* line 225
  Rule("MADD-sp-7", None, None, None, None,
       <<Bol>> \o L(<<\h0627,\h0644,\h0653,\h0631>>) \o <<Eol>>, <<\h0627,\h0644,\h0631>>, NoPOS, {}, {}, {}, {}),
  \* line 226
  Rule("MADD-sp-8", None, None, None, None,
       <<Bol>> \o L(<<\h0627,\h0644,\h0653,\h0645,\h0653,\h0635,\h0653>>) \o <<Eol>>, <<\h0627,\h0644,\h0645,\h0635>>, NoPOS, {}, {}, {}, {}),
  \* line 227
  Rule("MADD-sp-9", None, None, None, None,
       <<Bol>> \o L(<<\h0627,\h0644,\h0653,\h0645,\h0653,\h0631>>) \o <<Eol>>, <<\h0627,\h0644,\h0645,\h0631>>, NoPOS, {}, {}, {}, {}),
  \* line 228
  Rule("MADD-sp-A", None, None, None, None,
       <<Bol>> \o L(<<\h0635,\h0653>>) \o <<Eol>>, <<\h0635>>, NoPOS, {}, {}, {}, {}),
  \* line 229
  Rule("MADD-sp-B", None, None, None, None,
       <<Bol>> \o L(<<\h0639,\h0653,\h0633,\h0653,\h0642,\h0653>>) \o <<Eol>>, <<\h0639,\h0633,\h0642>>, NoPOS, {}, {}, {}, {}),
  \* line 230
  Rule("MADD-sp-C", None, None, None, None,
       <<Bol>> \o L(<<\h0642,\h0653>>) \o <<Eol>>, <<\h0642>>, NoPOS, {}, {}, {}, {}),
  \* line 231
  Rule("MADD-sp-D", None, None, None, None,
       <<Bol>> \o L(<<\h0646,\h0653>>) \o <<Eol>>, <<\h0646>>, NoPOS, {}, {}, {}, {}),
  \* line 234
  Rule("SHMS", None, None, None, None,
       <<Grp(1, <<L(<<\h0671>>),L(<<\h0644>>) \o <<Opt(L(<<\h0651>>))>> \o L(<<\h0650>>),L(<<\h0648,\h064E,\h0644,\h064E>>),L(<<\h0621,\h064E,\h0627>>)>>)>> \o L(<<\h0644>>) \o <<Grp(2, <<<<In({\h062A,\h062B,\h062F,\h0630,\h0631,\h0632,\h0633,\h0634,\h0635,\h0636,\h0637,\h0638,\h0644,\h0646})>>>>)>> \o L(<<\h0651>>), <<-1,\h0644,\h06E1,-2>>, "N", {}, {}, {}, {}),
  \* line 237
  Rule("MITHL-bb", L(<<\h0628>>), L(<<\h0628,\h0651>>), <<\h0628,\h06E1>>, <<\h0628>>,
       None, None, NoPOS, {}, {}, {}, {}),
  \* line 238
  Rule("MITHL-dd", L(<<\h062F>>), L(<<\h062F,\h0651>>), <<\h062F,\h06E1>>, <<\h062F>>,
       L(<<\h062F,\h062F,\h0651>>), <<\h062F,\h06E1,\h062F>>, NoPOS, {}, {}, {}, {}),
  \* line 239
  Rule("MITHL-kk", L(<<\h0643>>), L(<<\h0643,\h0651>>), <<\h0643,\h06E1>>, <<\h0643>>,
       L(<<\h0643,\h0643,\h0651>>), <<\h0643,\h06E1,\h0643>>, NoPOS, {}, {}, {}, {}),
  \* line 240
  Rule("MITHL-ll", L(<<\h0644>>), L(<<\h0644,\h0651>>), <<\h0644,\h06E1>>, <<\h0644>>,
       L(<<\h0644,\h0644,\h0651>>), <<\h0644,\h06E1,\h0644>>, NoPOS, {}, {}, {}, {}),
  \* line 241
  Rule("MITHL-yy", None, None, None, None,
       L(<<\h06CC,\h06CC,\h0651>>), <<\h06CC,\h06E1,\h06CC>>, NoPOS, {<<51,47,3>>}, {}, {}, {}),
  \* line 242
  Rule("MITHL-hh", None, None, None, None,
       L(<<\h0647,\h0647,\h0651>>), <<\h0647,\h06E1,\h0647>>, NoPOS, {}, {}, {}, {}),
  \* line 243
  Rule("MITHL-ww", L(<<\h0648>>) \o <<Opt(<<Grp(1, <<L(<<\h0627,\h06DF>>)>>)>>)>>, L(<<\h0648,\h0651>>), <<\h0648,\h06E1,-1>>, <<\h0648>>,
       None, None, NoPOS, {}, {}, {}, {}),
  \* line 244
  Rule("MITHL-tt", L(<<\h062A>>), L(<<\h062A,\h0651>>), <<\h062A,\h06E1>>, <<\h062A>>,
       None, None, NoPOS, {}, {}, {}, {}),
  \* line 245
  Rule("MITHL-rr", L(<<\h0631>>), L(<<\h0631,\h0651>>), <<\h0631,\h06E1>>, <<\h0631>>,
       None, None, NoPOS, {}, {}, {}, {}),
  \* line 246
  Rule("MITHL-{00F0}{00F0}", L(<<\h0630>>), L(<<\h0630,\h0651>>), <<\h0630,\h06E1>>, <<\h0630>>,
       None, None, NoPOS, {}, {}, {}, {}),
  \* line 247
  Rule("MITHL-ff", L(<<\h0641>>), L(<<\h0641,\h0651>>), <<\h0641,\h06E1>>, <<\h0641>>,
       None, None, NoPOS, {}, {}, {}, {}),
  \* line 248
  Rule("MITHL-33", L(<<\h0639>>), L(<<\h0639,\h0651>>), <<\h0639,\h06E1>>, <<\h0639>>,
       None, None, NoPOS, {}, {}, {}, {}),
  \* line 252
  Rule("MTJNS-dt", L(<<\h062F>>), L(<<\h062A,\h0651>>), <<\h062F,\h06E1>>, <<\h062A>>,
       L(<<\h062F,\h062A,\h0651>>), <<\h062F,\h06E1,\h062A>>, NoPOS, {}, {}, {}, {}),
  \* line 253
  Rule("MTJNS-td", L(<<\h062A>>), L(<<\h062F,\h0651>>), <<\h062A,\h06E1>>, <<\h062F>>,
       None, None, NoPOS, {}, {}, {}, {}),
  \* line 254
  Rule("MTJNS-tT", L(<<\h062A>>), L(<<\h0637,\h0651>>), <<\h062A,\h06E1>>, <<\h0637>>,
       None, None, NoPOS, {}, {}, {}, {}),
  \* line 255
  Rule("MTJNS-{1E6F}{00F0}", L(<<\h062B>>), L(<<\h0630,\h0651>>), <<\h062B,\h06E1>>, <<\h0630>>,
       None, None, NoPOS, {}, {}, {}, {}),
  \* line 256
  Rule("MTJNS-lr", L(<<\h0644>>), L(<<\h0631,\h0651>>), <<\h0644,\h06E1>>, <<\h0631>>,
       None, None, NoPOS, {}, {}, {}, {}),
  \* line 257
  Rule("MTJNS-{00F0}{1E6E}", L(<<\h0630>>), L(<<\h0638,\h0651>>), <<\h0630,\h06E1>>, <<\h0638>>,
       None, None, NoPOS, {}, {}, {}, {}),
  \* line 258
  Rule("MTJNS-qk", None, None, None, None,
       L(<<\h0642,\h0643,\h0651>>), <<\h0642,\h06E1,\h0643>>, NoPOS, {}, {}, {}, {}),
  \* line 259
  Rule("MTJNS-bm", L(<<\h0628>>), L(<<\h0645,\h0651>>), <<\h0628,\h06E1>>, <<\h0645>>,
       None, None, NoPOS, {}, {}, {}, {}),
  \* line 262
  Rule("t-assim", None, None, None, None,
       L(<<\h0637,\h062A>>), <<\h0637,\h06E1,\h062A>>, NoPOS, {}, {}, {}, {}),
  \* line 267
  Rule("HU", <<Behind(<<In({\h064E,\h064F,\h0650})>>)>> \o L(<<\h0647,\h064F,\h06E5>>), <<NotIn({\h0671})>>, <<\h0647,\h064F>>, None,
       None, None, NoPOS, {<<39,7,13>>}, {}, {}, {}),
  \* line 270
  Rule("min-u-1", None, None, None, None,
       L(<<\h062F,\h064E,\h0627,\h0648,\h064F,\h06E5,\h062F>>), <<\h062F,\h064E,\h0627,\h0648,\h064F,\h062F>>, NoPOS, {}, {}, {}, {}),
  \* line 271
  Rule("min-u-2", None, None, None, None,
       <<Grp(1, <<<<In({\h062A,\h06CC})>>>>)>> \o L(<<\h064E,\h0644,\h06E1,\h0648,\h064F,\h06E5,\h0646,\h064E>>), <<-1,\h064E,\h0644,\h06E1,\h0648,\h064F,\h0646,\h064E>>, NoPOS, {}, {}, {}, {}),
  \* line 272
  Rule("min-u-3", None, None, None, None,
       L(<<\h0648,\h064F,\h06E5,\h0631,\h0650,\h06CC,\h064E>>), <<\h0648,\h064F,\h0631,\h0650,\h06CC,\h064E>>, NoPOS, {}, {}, {}, {}),
  \* line 273
  Rule("min-u-4", None, None, None, None,
       <<Grp(1, <<L(<<\h0644,\h0650,\h062A>>),L(<<\h06CC>>)>>)>> \o L(<<\h064E,\h0633,\h06E1,\h062A,\h064E,\h0648,\h064F,\h06E5>>) \o <<Grp(2, <<L(<<\h0627,\h06DF>>),L(<<\h0646,\h064E>>)>>)>>, <<-1,\h064E,\h0633,\h06E1,\h062A,\h064E,\h0648,\h064F,-2>>, NoPOS, {}, {}, {}, {}),
  \* line 274
  Rule("min-u-5", None, None, None, None,
       <<Opt(<<Grp(1, <<L(<<\h0648,\h064E>>)>>)>>)>> \o L(<<\h0671,\h0644,\h06E1,\h063A,\h064E,\h0627,\h0648,\h064F,\h06E5,\h0646,\h064E>>), <<-1,\h0671,\h0644,\h06E1,\h063A,\h064E,\h0627,\h0648,\h064F,\h0646,\h064E>>, NoPOS, {}, {}, {}, {}),
  \* line 275
  Rule("min-u-6", None, None, None, None,
       L(<<\h0671,\h0644,\h06E1,\h0645,\h064E,\h0648,\h06E1,\h0621,\h064F,\h06E5,\h062F,\h064E,\h0629,\h064F>>), <<\h0671,\h0644,\h06E1,\h0645,\h064E,\h0648,\h06E1,\h0621,\h064F,\h062F,\h064E,\h0629,\h064F>>, NoPOS, {}, {}, {}, {}),
  \* line 276
  Rule("min-u-7", None, None, None, None,
       L(<<\h0648,\h064F,\h06E5>>), <<\h0648,\h064F>>, NoPOS, {}, {}, {}, RESTRICT_INDEXES_MIN_U_7),
  \* line 277
  Rule("min-u-8", None, None, None, None,
       L(<<\h0644,\h0650,\h06CC,\h064E,\h0633,\h064F,\h06E5>>) \o <<Opt(<<Grp(1, <<L(<<\h0640>>)>>)>>)>> \o L(<<\h0654,\h064F,\h0648,\h0627>>), <<\h0644,\h0650,\h06CC,\h064E,\h0633,\h064F,-1,\h0654,\h064F,\h0648,\h0627>>, NoPOS, {}, {}, {}, {<<17,7,12>>}),
  \* line 279
  Rule("HI", <<Behind(<<In({\h064E,\h064F,\h0650})>>)>> \o L(<<\h0647,\h0650,\h06E6>>), <<NotIn({\h0671})>>, <<\h0647,\h0650>>, None,
       None, None, NoPOS, {}, {}, {}, {}),
  \* line 281
  Rule("min-y-1", None, None, None, None,
       L(<<\h0625,\h0650,\h0628,\h06E1,\h0631,\h064E,\h0670,\h0647,\h0650,\h06E7,\h0645>>), <<\h0625,\h0650,\h0628,\h06E1,\h0631,\h064E,\h0670,\h0647,\h0650,\h0645>>, NoPOS, {}, {}, {}, {}),
  \* line 282
  Rule("min-y-2", None, None, None, None,
       L(<<\h0646,\h064E,\h0628,\h0650,\h06CC,\h0651,\h0650,\h06E7>>), <<\h0646,\h064E,\h0628,\h0650,\h06CC,\h0651,\h0650>>, NoPOS, EXCLUDE_INDEXES_MIN_Y_2, {}, {}, {}),
  \* line 283
  Rule("min-y-3", <<Bol>> \o L(<<\h06CC,\h064F,\h062D,\h06E1,\h06CC,\h0650,\h06E6>>) \o <<Eol>>, <<NotIn({\h0671})>>, <<\h06CC,\h064F,\h062D,\h06E1,\h06CC,\h0650>>, None,
       None, None, NoPOS, {}, {}, {}, {}),
  \* line 284
  Rule("min-y-4", None, None, None, None,
       L(<<\h06E6>>) \o <<Eol>>, <<>>, NoPOS, {}, {}, {}, RESTRICT_INDEXES_MIN_Y_4),
  \* line 285
  Rule("min-y-5", None, None, None, None,
       L(<<\h0650,\h06E7,\h0646,\h064E>>) \o <<Eol>>, <<\h0650,\h0646,\h064E>>, NoPOS, {}, {}, {}, RESTRICT_INDEXES_MIN_5),
  \* line 286
  Rule("min-y-6", None, None, None, None,
       L(<<\h0621,\h064E,\h0627,\h062A,\h064E,\h0649,\h0670,\h0646,\h0650,\h06E6>>), <<\h0621,\h064E,\h0627,\h062A,\h064E,\h0649,\h0670,\h0646,\h0650>>, NoPOS, {}, {}, {}, {<<27,36,8>>}),
  \* line 287
  Rule("min-y-7", None, None, None, None,
       L(<<\h0625,\h0650,\h06E7,\h0644,\h064E,\h0670,\h0641,\h0650,\h0647,\h0650,\h0645,\h06E1>>), <<\h0625,\h0650,\h0644,\h064E,\h0670,\h0641,\h0650,\h0647,\h0650,\h0645,\h06E1>>, NoPOS, {}, {}, {}, {<<106,2,1>>}),
  \* line 288
  Rule("min-y-8", None, None, None, None,
       L(<<\h062D,\h06E1,\h06E7,\h0650,\h06CC>>), <<\h062D,\h06E1,\h0650,\h06CC>>, NoPOS, {}, {}, {}, {<<25,49,1>>, <<46,33,15>>, <<75,40,6>>}),
  \* line 289
  Rule("min-y-9", None, None, None, None,
       L(<<\h0648,\h064E,\h0644,\h0650,\h06E7,\h0651,\h0650,\h06CC>>), <<\h0648,\h064E,\h0644,\h0650,\h0651,\h0650,\h06CC>>, NoPOS, {}, {}, {}, {<<7,196,2>>}),
  \* line 290
  Rule("min-y-A", None, None, None, None,
       L(<<\h06CC,\h064E,\h0633,\h06E1,\h062A,\h064E,\h062D,\h06E1,\h06CC,\h0650,\h06E6>>), <<\h06CC,\h064E,\h0633,\h06E1,\h062A,\h064E,\h062D,\h06E1,\h06CC,\h0650>>, NoPOS, {}, {}, {}, {<<2,26,5>>}),
  \* line 293
  Rule("sakt-1", None, None, None, None,
       L(<<\h0635,\h06DC>>), <<\h0635>>, NoPOS, {}, {}, {}, {<<2,245,14>>, <<7,69,22>>}),
  \* line 294
  Rule("sakt-2", None, None, None, None,
       L(<<\h0627,\h06DC>>), <<\h0627>>, NoPOS, {}, {}, {}, {<<18,1,15>>, <<36,52,6>>}),
  \* line 295
  Rule("sakt-3", None, None, None, None,
       L(<<\h06E1,\h06DC>>), <<\h06E1>>, NoPOS, {}, {}, {}, {<<69,28,4>>, <<75,27,2>>, <<83,14,2>>}),
  \* line 305
  Rule("P-sil-1", None, None, None, None,
       <<Bol>> \o <<Grp(1, <<<<Opt(<<Grp(0, <<L(<<\h0648,\h064E>>),L(<<\h0641,\h064E>>)>>)>>)>> \o L(<<\h0623,\h064E,\h0646,\h064E,\h0627>>),L(<<\h0644,\h064E,\h0670,\h0643,\h0650,\h0646,\h0651,\h064E,\h0627>>),L(<<\h0671,\h0644,\h06E1,\h0631,\h064E,\h0633,\h064F,\h0648,\h0644,\h064E,\h0627>>),L(<<\h0671,\h0644,\h06E1,\h0633,\h064E,\h0628,\h0650,\h06CC,\h0644,\h064E,\h0627>>),L(<<\h0671,\h0644,\h06E1,\h0638,\h064F,\h0646,\h064F,\h0648,\h0646,\h064E,\h0627>>)>>)>> \o L(<<\h06E0>>) \o <<Eol>>, <<-1>>, NoPOS, {}, {}, {}, {}),
  \* line 306
  Rule("P-sil-2", None, None, None, None,
       L(<<\h0642,\h064E,\h0648,\h064E,\h0627,\h0631,\h0650,\h06CC,\h0631,\h064E,\h0627,\h06E0>>), <<\h0642,\h064E,\h0648,\h064E,\h0627,\h0631,\h0650,\h06CC,\h0631,\h064E,\h0627>>, NoPOS, {}, {}, {}, {<<76,15,8>>}),
  \* line 312
  Rule("Sil-1", None, None, None, None,
       L(<<\h0648,\h0627,\h06DF>>) \o <<Eol>>, <<\h0648,\h0627>>, NoPOS, {}, {}, {}, {}),
  \* line 313
  Rule("Sil-2", None, None, None, None,
       L(<<\h064E,\h0648,\h06E1,\h0627,\h06DF>>) \o <<Eol>>, <<\h064E,\h0648,\h06E1,\h0627>>, NoPOS, {}, {}, {}, {}),
  \* line 314
  Rule("Sil-3", None, None, None, None,
       L(<<\h0623,\h064F,\h0648,\h06DF,\h0644,\h064E,\h0670,\h0649,\h0655,\h0650,\h0643>>), <<\h0623,\h064F,\h0648,\h0644,\h064E,\h0670,\h0649,\h0655,\h0650,\h0643>>, NoPOS, {}, {}, {}, {}),
  \* line 315
  Rule("Sil-4", L(<<\h0648>>) \o <<Grp(1, <<<<In({\h064E,\h064F})>>>>)>> \o L(<<\h0627,\h06DF>>), L(<<\h0671>>), <<\h0648,-1,\h0627>>, None,
       None, None, NoPOS, EXCLUDE_INDEXES_SIL_5, {}, {}, {}),
  \* line 316
  Rule("Sil-5", None, None, None, None,
       L(<<\h0624,\h064F,\h0627,\h06DF>>), <<\h0624,\h064F,\h0627>>, NoPOS, {}, {}, {}, RESTRICT_INDEXES_SIL_6),
  \* line 317
  Rule("Sil-6", None, None, None, None,
       L(<<\h0623,\h064F,\h0648,\h06DF>>), <<\h0623,\h064F,\h0648>>, NoPOS, {}, {}, {}, RESTRICT_INDEXES_SIL_7),
  \* line 318
  Rule("Sil-7", None, None, None, None,
       L(<<\h0627,\h06DF>>) \o <<NotAhead(<<Eol>>)>>, <<\h0627>>, NoPOS, {}, {}, {}, RESTRICT_INDEXES_SIL_8),
  \* line 319
  Rule("Sil-8", None, None, None, None,
       L(<<\h0625,\h0650,\h06CC,\h06DF>>), <<\h0625,\h0650,\h06CC>>, NoPOS, {}, {}, {}, RESTRICT_INDEXES_SIL_9),
  \* line 320
  Rule("Sil-9", None, None, None, None,
       L(<<\h0627,\h06DF>>) \o <<Eol>>, <<\h0627>>, NoPOS, {<<76,16,1>>}, {}, {}, RESTRICT_INDEXES_SIL_A),
  \* line 321
  Rule("Sil-A", None, None, None, None,
       L(<<\h0627,\h06DF>>), <<\h0627>>, NoPOS, {}, {}, {}, {<<39,69,7>>, <<89,23,1>>}),
  \* line 322
  Rule("Sil-B", None, None, None, None,
       L(<<\h0642,\h064E,\h0648,\h064E,\h0627,\h0631,\h0650,\h06CC,\h0631,\h064E,\h0627,\h06DF>>), <<\h0642,\h064E,\h0648,\h064E,\h0627,\h0631,\h0650,\h06CC,\h0631,\h064E,\h0627>>, NoPOS, {}, {}, {}, {<<76,16,1>>}),
  \* line 323
  Rule("Sil-C", None, None, None, None,
       L(<<\h0628,\h0650,\h0623,\h064E,\h06CC,\h06E1,\h06CC,\h06DF,\h062F,\h064D>>), <<\h0628,\h0650,\h0623,\h064E,\h06CC,\h06E1,\h06CC,\h062F,\h064D>>, NoPOS, {}, {}, {}, {<<51,47,3>>}),
  \* line 324
  Rule("Sil-D", None, None, None, None,
       L(<<\h062A,\h064E,\h0627,\h06DF,\h06CC,\h06E1>>) \o <<Opt(<<Grp(1, <<L(<<\h0640>>)>>)>>)>> \o L(<<\h0654,\h064E,\h0633,\h064F,\h0648,\h0627>>), <<\h062A,\h064E,\h0627,\h06CC,\h06E1,-1,\h0654,\h064E,\h0633,\h064F,\h0648,\h0627>>, NoPOS, {}, {}, {}, {<<12,87,8>>}),
  \* line 325
  Rule("Sil-E", None, None, None, None,
       L(<<\h0644,\h064E,\h0623,\h064E,\h0627,\h06DF,\h0630,\h06E1,\h0628,\h064E,\h062D,\h064E,\h0646,\h0651,\h064E,\h0647,\h064F>>), <<\h0644,\h064E,\h0623,\h064E,\h0627,\h0630,\h06E1,\h0628,\h064E,\h062D,\h064E,\h0646,\h0651,\h064E,\h0647,\h064F>>, NoPOS, {}, {}, {}, {<<27,21,5>>}),
  \* line 326
  Rule("Sil-F", None, None, None, None,
       L(<<\h0644,\h0650,\h0634,\h064E,\h0627,\h06DF,\h06CC,\h06E1,\h0621,\h064D>>), <<\h0644,\h0650,\h0634,\h064E,\h0627,\h06CC,\h06E1,\h0621,\h064D>>, NoPOS, {}, {}, {}, {<<18,23,3>>}),
  \* line 327
  Rule("Sil-G", None, None, None, None,
       L(<<\h06CC,\h064E,\h0627,\h06DF>>), <<\h06CC,\h064E,\h0627>>, NoPOS, {}, {}, {}, {<<12,87,14>>, <<13,31,20>>}),
  \* line 332
  Rule("hapax-1", None, None, None, None,
       L(<<\h0645,\h064E,\h062C,\h06E1,\h0631,\h06EA,\h0649,\h0670,\h0647,\h064E,\h0627>>), <<\h0645,\h064E,\h062C,\h06E1,\h0631,\h0649,\h0670,\h0647,\h064E,\h0627>>, NoPOS, {}, {}, {}, {}),
  \* line 333
  Rule("hapax-2", None, None, None, None,
       L(<<\h062A,\h064E,\h0623,\h06E1,\h0645,\h064E,\h06EB,\h0646,\h0651,\h064E,\h0627>>), <<\h062A,\h064E,\h0623,\h06E1,\h0645,\h064E,\h0646,\h0651,\h064E,\h0627>>, NoPOS, {}, {}, {}, {}),
  \* line 334
  Rule("hapax-3", None, None, None, None,
       L(<<\h0621,\h064E,\h0627,\h06EC,\h0639,\h06E1,\h062C,\h064E,\h0645,\h0650,\h06CC,\h0651>>), <<\h0621,\h064E,\h0627,\h0639,\h06E1,\h062C,\h064E,\h0645,\h0650,\h06CC,\h0651>>, NoPOS, {}, {}, {}, {})
>>

RESTORE_SANDHI_RULES == <<
  \* line 340
  Rule("hapax-1", None, None, None, None,
       L(<<\h0645,\h064E,\h062C,\h06E1,\h0631,\h0649,\h0670,\h0647,\h064E,\h0627>>), <<\h0645,\h064E,\h062C,\h06E1,\h0631,\h06EA,\h0649,\h0670,\h0647,\h064E,\h0627>>, NoPOS, {}, {}, {}, {}),
  \* line 341
  Rule("hapax-2", None, None, None, None,
       L(<<\h062A,\h064E,\h0623,\h06E1,\h0645,\h064E,\h0646,\h0651,\h064E,\h0627>>), <<\h062A,\h064E,\h0623,\h06E1,\h0645,\h064E,\h06EB,\h0646,\h0651,\h064E,\h0627>>, NoPOS, {}, {}, {}, {}),
  \* line 342
  Rule("hapax-3", None, None, None, None,
       L(<<\h0621,\h064E,\h0627,\h0639,\h06E1,\h062C,\h064E,\h0645,\h0650,\h06CC,\h0651>>), <<\h0621,\h064E,\h0627,\h06EC,\h0639,\h06E1,\h062C,\h064E,\h0645,\h0650,\h06CC,\h0651>>, NoPOS, {}, {}, {}, {}),
  \* line 345
  Rule("P-sil-1", None, None, None, None,
       <<Bol>> \o <<Grp(1, <<<<Opt(<<Grp(0, <<L(<<\h0648,\h064E>>),L(<<\h0641,\h064E>>)>>)>>)>> \o L(<<\h0623,\h064E,\h0646,\h064E,\h0627>>),L(<<\h0644,\h0651,\h064E,\h0670,\h0643,\h0650,\h0646,\h0651,\h064E,\h0627>>),L(<<\h0671,\h0644,\h06E1,\h0631,\h064E,\h0633,\h064F,\h0648,\h0644,\h064E,\h0627>>),L(<<\h0671,\h0644,\h06E1,\h0633,\h064E,\h0628,\h0650,\h06CC,\h0644,\h064E,\h0627>>),L(<<\h0671,\h0644,\h06E1,\h0638,\h064F,\h0646,\h064F,\h0648,\h0646,\h064E,\h0627>>)>>)>> \o <<Eol>>, <<-1,\h06E0>>, NoPOS, EXCLUDE_INDEXES_SIL_1, {}, {}, {}),
  \* line 346
  Rule("P-sil-2", None, None, None, None,
       L(<<\h0642,\h064E,\h0648,\h064E,\h0627,\h0631,\h0650,\h06CC,\h0631,\h064E,\h0627>>), <<\h0642,\h064E,\h0648,\h064E,\h0627,\h0631,\h0650,\h06CC,\h0631,\h064E,\h0627,\h06E0>>, NoPOS, {}, {}, {}, {<<76,15,8>>}),
  \* line 348
  Rule("sakt-1", None, None, None, None,
       L(<<\h0635>>), <<\h0635,\h06DC>>, NoPOS, {}, {}, {}, {<<2,245,14>>, <<7,69,22>>}),
  \* line 349
  Rule("sakt-2", None, None, None, None,
       L(<<\h0627>>), <<\h0627,\h06DC>>, NoPOS, {}, {}, {}, {<<18,1,15>>, <<36,52,6>>}),
  \* line 350
  Rule("sakt-3", None, None, None, None,
       L(<<\h06E1>>), <<\h06E1,\h06DC>>, NoPOS, {}, {}, {}, {<<69,28,4>>, <<75,27,2>>, <<83,14,2>>}),
  \* line 352
  Rule("Sil-1", None, None, None, None,
       L(<<\h0648,\h0627>>) \o <<Eol>>, <<\h0648,\h0627,\h06DF>>, NoPOS, {}, {}, {}, {}),
  \* line 353
  Rule("Sil-2", None, None, None, None,
       L(<<\h064E,\h0648,\h06E1,\h0627>>) \o <<Eol>>, <<\h064E,\h0648,\h06E1,\h0627,\h06DF>>, NoPOS, {}, {}, {}, {}),
  \* line 354
  Rule("Sil-3", None, None, None, None,
       L(<<\h0623,\h064F,\h0648,\h0644,\h064E,\h0670,\h0649,\h0655,\h0650,\h0643>>), <<\h0623,\h064F,\h0648,\h06DF,\h0644,\h064E,\h0670,\h0649,\h0655,\h0650,\h0643>>, NoPOS, {}, {}, {}, {}),
  \* line 355
  Rule("Sil-4", L(<<\h0648>>) \o <<Grp(1, <<<<In({\h064E,\h064F})>>>>)>> \o L(<<\h0627>>), L(<<\h0671>>), <<\h0648,-1,\h0627,\h06DF>>, None,
       None, None, NoPOS, EXCLUDE_INDEXES_SIL_5, {}, {}, {}),
  \* line 356
  Rule("Sil-5", None, None, None, None,
       L(<<\h0624,\h064F,\h0627>>), <<\h0624,\h064F,\h0627,\h06DF>>, NoPOS, {}, {}, {}, RESTRICT_INDEXES_SIL_6),
  \* line 357
  Rule("Sil-6", None, None, None, None,
       L(<<\h0623,\h064F,\h0648>>), <<\h0623,\h064F,\h0648,\h06DF>>, NoPOS, {}, {}, {}, RESTRICT_INDEXES_SIL_7),
  \* line 358
  Rule("Sil-7", None, None, None, None,
       L(<<\h0627>>) \o <<NotAhead(<<Eol>>)>>, <<\h0627,\h06DF>>, NoPOS, {}, {}, {}, RESTRICT_INDEXES_SIL_8),
  \* line 359
  Rule("Sil-8", None, None, None, None,
       L(<<\h0625,\h0650,\h06CC>>), <<\h0625,\h0650,\h06CC,\h06DF>>, NoPOS, {}, {}, {}, RESTRICT_INDEXES_SIL_9),
  \* line 360
  Rule("Sil-9", None, None, None, None,
       L(<<\h0627>>) \o <<Eol>>, <<\h0627,\h06DF>>, NoPOS, {<<76,16,1>>}, {}, {}, RESTRICT_INDEXES_SIL_A),
  \* line 361
  Rule("Sil-A", None, None, None, None,
       L(<<\h0627>>), <<\h0627,\h06DF>>, NoPOS, {}, {}, {}, {<<39,69,7>>, <<89,23,1>>}),
  \* line 362
  Rule("Sil-B", None, None, None, None,
       L(<<\h0642,\h064E,\h0648,\h064E,\h0627,\h0631,\h0650,\h06CC,\h0631,\h064E,\h0627>>), <<\h0642,\h064E,\h0648,\h064E,\h0627,\h0631,\h0650,\h06CC,\h0631,\h064E,\h0627,\h06DF>>, NoPOS, {}, {}, {}, {<<76,16,1>>}),
  \* line 363
  Rule("Sil-C", None, None, None, None,
       L(<<\h0628,\h0650,\h0623,\h064E,\h06CC,\h06E1,\h06CC,\h062F,\h064D>>), <<\h0628,\h0650,\h0623,\h064E,\h06CC,\h06E1,\h06CC,\h06DF,\h062F,\h064D>>, NoPOS, {}, {}, {}, {<<51,47,3>>}),
  \* line 364
  Rule("Sil-D", None, None, None, None,
       L(<<\h062A,\h064E,\h0627,\h06CC,\h06E1>>) \o <<Opt(<<Grp(1, <<L(<<\h0640>>)>>)>>)>> \o L(<<\h0654,\h064E,\h0633,\h064F,\h0648,\h0627>>), <<\h062A,\h064E,\h0627,\h06DF,\h06CC,\h06E1,-1,\h0654,\h064E,\h0633,\h064F,\h0648,\h0627>>, NoPOS, {}, {}, {}, {<<12,87,8>>}),
  \* line 365
  Rule("Sil-E", None, None, None, None,
       L(<<\h0644,\h064E,\h0623,\h064E,\h0627,\h0630,\h06E1,\h0628,\h064E,\h062D,\h064E,\h0646,\h0651,\h064E,\h0647,\h064F>>), <<\h0644,\h064E,\h0623,\h064E,\h0627,\h06DF,\h0630,\h06E1,\h0628,\h064E,\h062D,\h064E,\h0646,\h0651,\h064E,\h0647,\h064F>>, NoPOS, {}, {}, {}, {<<27,21,5>>}),
  \* line 366
  Rule("Sil-F", None, None, None, None,
       L(<<\h0644,\h0650,\h0634,\h064E,\h0627,\h06CC,\h06E1,\h0621,\h064D>>), <<\h0644,\h0650,\h0634,\h064E,\h0627,\h06DF,\h06CC,\h06E1,\h0621,\h064D>>, NoPOS, {}, {}, {}, {<<18,23,3>>}),
  \* line 367
  Rule("Sil-G", None, None, None, None,
       L(<<\h06CC,\h064E,\h0627>>), <<\h06CC,\h064E,\h0627,\h06DF>>, NoPOS, {}, {}, {}, {<<12,87,14>>, <<13,31,20>>}),
  \* line 369
  Rule("M1", L(<<\h0645,\h06E1>>), L(<<\h0628>>), <<\h0645>>, <<\h0628>>,
       None, None, NoPOS, {}, {}, {}, {}),
  \* line 370
  Rule("M2", L(<<\h0645,\h06E1>>), L(<<\h0645>>), <<\h0645>>, <<\h0645,\h0651>>,
       None, None, NoPOS, {}, {}, {}, {}),
  \* line 371
  Rule("N2.1.1.A", L(<<\h0646,\h06E1>>), <<Grp(1, <<<<In({\h0645,\h0646})>>>>)>>, <<\h0646>>, <<-1,\h0651>>,
       None, None, NoPOS, {}, {}, {}, {}),
  \* line 372
  Rule("N2.1.1.B", L(<<\h064B>>) \o <<Grp(1, <<<<Opt(<<In({\h0627,\h06CC})>>)>>>>)>>, <<Grp(1, <<<<In({\h0645,\h0646})>>>>)>>, <<\h08F0,-1>>, <<-1,\h0651>>,
       None, None, NoPOS, {}, {}, {}, {}),
  \* line 373
  Rule("N2.1.1.C", L(<<\h064C>>) \o <<Opt(<<Grp(1, <<L(<<\h0627,\h06DF>>)>>)>>)>>, <<Grp(1, <<<<In({\h0645,\h0646})>>>>)>>, <<\h08F1,-1>>, <<-1,\h0651>>,
       None, None, NoPOS, {}, {}, {}, {}),
  \* line 374
  Rule("N2.1.1.D", L(<<\h064D>>), <<Grp(1, <<<<In({\h0645,\h0646})>>>>)>>, <<\h08F2>>, <<-1,\h0651>>,
       None, None, NoPOS, {}, {}, {}, {}),
  \* line 375
  Rule("N2.1.2.A", L(<<\h0646,\h06E1>>), <<In({\h0648,\h06CC})>>, <<\h0646>>, None,
       None, None, NoPOS, {}, {}, {}, {}),
  \* line 376
  Rule("N2.1.2.B", L(<<\h064B>>) \o <<Grp(1, <<<<Opt(<<In({\h0627,\h06CC})>>)>>>>)>>, <<In({\h0648,\h06CC})>>, <<\h08F0,-1>>, None,
       None, None, NoPOS, {}, {}, {}, {}),
  \* line 377
  Rule("N2.1.2.C", L(<<\h064C>>), <<In({\h0648,\h06CC})>>, <<\h08F1>>, None,
       None, None, NoPOS, {}, {}, {}, {}),
  \* line 378
  Rule("N2.1.2.D", L(<<\h064D>>), <<In({\h0648,\h06CC})>>, <<\h08F2>>, None,
       None, None, NoPOS, {}, {}, {}, {}),
  \* line 379
  Rule("N2.2.A", L(<<\h0646,\h06E1>>), <<Grp(1, <<<<In({\h0631,\h0644})>>>>)>>, <<\h0646>>, <<-1,\h0651>>,
       None, None, NoPOS, {}, {}, {}, {}),
  \* line 380
  Rule("N2.2.B", L(<<\h064B>>) \o <<Grp(1, <<<<Opt(<<In({\h0627,\h06CC})>>)>>>>)>>, <<Grp(1, <<<<In({\h0631,\h0644})>>>>)>>, <<\h08F0,-1>>, <<-1,\h0651>>,
       None, None, NoPOS, {}, {}, {}, {}),
  \* line 381
  Rule("N2.2.C", L(<<\h064C>>), <<Grp(1, <<<<In({\h0631,\h0644})>>>>)>>, <<\h08F1>>, <<-1,\h0651>>,
       None, None, NoPOS, {}, {}, {}, {}),
  \* line 382
  Rule("N2.2.D", L(<<\h064D>>), <<Grp(1, <<<<In({\h0631,\h0644})>>>>)>>, <<\h08F2>>, <<-1,\h0651>>,
       None, None, NoPOS, {}, {}, {}, {}),
  \* line 383
  Rule("N3.A", L(<<\h0646,\h06E1>>), L(<<\h0628>>), <<\h0646,\h06E2>>, None,
       L(<<\h0646,\h06E1>>) \o <<Ahead(L(<<\h0628>>))>>, <<\h0646,\h06E2>>, NoPOS, {}, {}, {}, {}),
  \* line 384
  Rule("N3.B", L(<<\h064B>>) \o <<Opt(<<Grp(1, <<L(<<\h0627>>)>>)>>)>>, L(<<\h0628>>), <<\h064E,\h06E2,-1>>, None,
       None, None, NoPOS, {}, {}, {}, {}),
  \* line 385
  Rule("N3.C", L(<<\h064C>>), L(<<\h0628>>), <<\h064F,\h06E2>>, None,
       None, None, NoPOS, {}, {}, {}, {}),
  \* line 386
  Rule("N3.D", L(<<\h064D>>), L(<<\h0628>>), <<\h0650,\h06ED>>, None,
       None, None, NoPOS, {}, {}, {}, {}),
  \* line 387
  Rule("N4.A", L(<<\h0646,\h06E1>>), <<Ahead(<<In(IKHFA2)>>)>>, <<\h0646>>, None,
       L(<<\h0646,\h06E1>>) \o <<Ahead(<<In(IKHFA2)>>)>>, <<\h0646>>, NoPOS, {}, {}, {}, {}),
  \* line 388
  Rule("N4.B", L(<<\h064B>>) \o <<Opt(<<Grp(1, <<<<In({\h0627,\h06CC})>>>>)>>)>>, <<Ahead(<<In(IKHFA2)>>)>>, <<\h08F0,-1>>, None,
       None, None, NoPOS, {}, {}, {}, {}),
  \* line 389
  Rule("N4.C", L(<<\h064C>>), <<Ahead(<<In(IKHFA2)>>)>>, <<\h08F1>>, None,
       None, None, NoPOS, {}, {}, {}, {}),
  \* line 390
  Rule("N4.D", L(<<\h064D>>), <<Ahead(<<In(IKHFA2)>>)>>, <<\h08F2>>, None,
       None, None, NoPOS, {}, {}, {}, {}),
  \* line 392
  Rule("SHMS", None, None, None, None,
       <<Grp(1, <<L(<<\h0671>>),L(<<\h0644>>) \o <<Opt(L(<<\h0651>>))>> \o L(<<\h0650>>),L(<<\h0648,\h064E,\h0644,\h064E>>),L(<<\h0621,\h064E,\h0627>>)>>)>> \o L(<<\h0644,\h06E1>>) \o <<Grp(2, <<<<In({\h062A,\h062B,\h062F,\h0630,\h0631,\h0632,\h0633,\h0634,\h0635,\h0636,\h0637,\h0638,\h0644,\h0646})>>>>)>>, <<-1,\h0644,-2,\h0651>>, "N", {}, {}, {}, {}),
  \* line 394
  Rule("MITHL-bb", L(<<\h0628,\h06E1>>), L(<<\h0628>>), <<\h0628>>, <<\h0628,\h0651>>,
       None, None, NoPOS, {}, {}, {}, {}),
  \* line 395
  Rule("MITHL-dd", L(<<\h062F,\h06E1>>), L(<<\h062F>>), <<\h062F>>, <<\h062F,\h0651>>,
       L(<<\h062F,\h06E1,\h062F>>), <<\h062F,\h062F,\h0651>>, NoPOS, {}, {}, {}, {}),
  \* line 396
  Rule("MITHL-kk", L(<<\h0643,\h06E1>>), L(<<\h0643>>), <<\h0643>>, <<\h0643,\h0651>>,
       L(<<\h0643,\h06E1,\h0643>>), <<\h0643,\h0643,\h0651>>, NoPOS, {}, {}, {}, {}),
  \* line 397
  Rule("MITHL-ll", L(<<\h0644,\h06E1>>), L(<<\h0644>>), <<\h0644>>, <<\h0644,\h0651>>,
       L(<<\h0644,\h06E1,\h0644>>), <<\h0644,\h0644,\h0651>>, NoPOS, {}, {}, {}, {}),
  \* line 398
  Rule("MITHL-yy", None, None, None, None,
       L(<<\h06CC,\h06E1,\h06CC>>), <<\h06CC,\h06CC,\h0651>>, NoPOS, {<<51,47,3>>}, {}, {}, {}),
  \* line 399
  Rule("MITHL-hh", None, None, None, None,
       L(<<\h0647,\h06E1,\h0647>>), <<\h0647,\h0647,\h0651>>, NoPOS, {}, {}, {}, {}),
  \* line 400
  Rule("MITHL-ww", L(<<\h0648,\h06E1>>) \o <<Opt(<<Grp(1, <<L(<<\h0627,\h06DF>>)>>)>>)>>, L(<<\h0648>>), <<\h0648,-1>>, <<\h0648,\h0651>>,
       None, None, NoPOS, {}, {}, {}, {}),
  \* line 401
  Rule("MITHL-tt", L(<<\h062A,\h06E1>>), L(<<\h062A>>), <<\h062A>>, <<\h062A,\h0651>>,
       None, None, NoPOS, {}, {}, {}, {}),
  \* line 402
  Rule("MITHL-rr", L(<<\h0631,\h06E1>>), L(<<\h0631>>), <<\h0631>>, <<\h0631,\h0651>>,
       None, None, NoPOS, {}, {}, {}, {}),
  \* line 403
  Rule("MITHL-{00F0}{00F0}", L(<<\h0630,\h06E1>>), L(<<\h0630>>), <<\h0630>>, <<\h0630,\h0651>>,
       None, None, NoPOS, {}, {}, {}, {}),
  \* line 404
  Rule("MITHL-ff", L(<<\h0641,\h06E1>>), L(<<\h0641>>), <<\h0641>>, <<\h0641,\h0651>>,
       None, None, NoPOS, {}, {}, {}, {}),
  \* line 405
  Rule("MITHL-33", L(<<\h0639,\h06E1>>), L(<<\h0639>>), <<\h0639>>, <<\h0639,\h0651>>,
       None, None, NoPOS, {}, {}, {}, {}),
  \* line 407
  Rule("MTJNS-dt", L(<<\h062F,\h06E1>>), L(<<\h062A>>), <<\h062F>>, <<\h062A,\h0651>>,
       L(<<\h062F,\h06E1,\h062A>>), <<\h062F,\h062A,\h0651>>, NoPOS, {}, {}, {}, {}),
  \* line 408
  Rule("MTJNS-td", L(<<\h062A,\h06E1>>), L(<<\h062F>>), <<\h062A>>, <<\h062F,\h0651>>,
       None, None, NoPOS, {}, {}, {}, {}),
  \* line 409
  Rule("MTJNS-tT", L(<<\h062A,\h06E1>>), L(<<\h0637>>), <<\h062A>>, <<\h0637,\h0651>>,
       None, None, NoPOS, {}, {}, {}, {}),
  \* line 410
  Rule("MTJNS-{1E6F}{00F0}", L(<<\h062B,\h06E1>>), L(<<\h0630>>), <<\h062B>>, <<\h0630,\h0651>>,
       None, None, NoPOS, {}, {}, {}, {}),
  \* line 411
  Rule("MTJNS-lr", L(<<\h0644,\h06E1>>), L(<<\h0631>>), <<\h0644>>, <<\h0631,\h0651>>,
       L(<<\h0644,\h06E1,\h0631>>), <<\h0644,\h0631,\h0651>>, NoPOS, {}, {}, {}, {}),
  \* line 412
  Rule("MTJNS-{00F0}{1E6E}", L(<<\h0630,\h06E1>>), L(<<\h0638>>), <<\h0630>>, <<\h0638,\h0651>>,
       None, None, NoPOS, {}, {}, {}, {}),
  \* line 413
  Rule("MTJNS-qk", None, None, None, None,
       L(<<\h0642,\h06E1,\h0643>>), <<\h0642,\h0643,\h0651>>, NoPOS, {}, {}, {}, {}),
  \* line 414
  Rule("MTJNS-bm", L(<<\h0628,\h06E1>>), L(<<\h0645>>), <<\h0628>>, <<\h0645,\h0651>>,
       None, None, NoPOS, {}, {}, {}, {}),
  \* line 416
  Rule("t-assim", None, None, None, None,
       L(<<\h0637,\h06E1,\h062A>>), <<\h0637,\h062A>>, NoPOS, {}, {}, {}, {}),
  \* line 418
  Rule("HU", <<Behind(<<In({\h064E,\h064F,\h0650})>>)>> \o L(<<\h0647,\h064F>>), <<NotIn({\h0671})>>, <<\h0647,\h064F,\h06E5>>, None,
       None, None, NoPOS, {<<39,7,13>>}, {}, {}, {}),
  \* line 420
  Rule("min-u-1", None, None, None, None,
       L(<<\h062F,\h064E,\h0627,\h0648,\h064F,\h062F>>), <<\h062F,\h064E,\h0627,\h0648,\h064F,\h06E5,\h062F>>, NoPOS, {}, {}, {}, {}),
  \* line 421
  Rule("min-u-2", None, None, None, None,
       <<Grp(1, <<<<In({\h062A,\h06CC})>>>>)>> \o L(<<\h064E,\h0644,\h06E1,\h0648,\h064F,\h0646,\h064E>>), <<-1,\h064E,\h0644,\h06E1,\h0648,\h064F,\h06E5,\h0646,\h064E>>, NoPOS, {}, {}, {}, {}),
  \* line 422
  Rule("min-u-3", None, None, None, None,
       L(<<\h0648,\h064F,\h0631,\h0650,\h06CC,\h064E>>), <<\h0648,\h064F,\h06E5,\h0631,\h0650,\h06CC,\h064E>>, NoPOS, {}, {}, {}, {}),
  \* line 423
  Rule("min-u-4", None, None, None, None,
       <<Grp(1, <<L(<<\h0644,\h0650,\h062A>>),L(<<\h06CC>>)>>)>> \o L(<<\h064E,\h0633,\h06E1,\h062A,\h064E,\h0648,\h064F>>) \o <<Grp(2, <<L(<<\h0627,\h06DF>>),L(<<\h0646,\h064E>>)>>)>>, <<-1,\h064E,\h0633,\h06E1,\h062A,\h064E,\h0648,\h064F,\h06E5,-2>>, NoPOS, {}, {}, {}, {}),
  \* line 424
  Rule("min-u-5", None, None, None, None,
       <<Opt(<<Grp(1, <<L(<<\h0648,\h064E>>)>>)>>)>> \o L(<<\h0671,\h0644,\h06E1,\h063A,\h064E,\h0627,\h0648,\h064F,\h0646,\h064E>>), <<-1,\h0671,\h0644,\h06E1,\h063A,\h064E,\h0627,\h0648,\h064F,\h06E5,\h0646,\h064E>>, NoPOS, {}, {}, {}, {}),
  \* line 425
  Rule("min-u-6", None, None, None, None,
       L(<<\h0671,\h0644,\h06E1,\h0645,\h064E,\h0648,\h06E1,\h0621,\h064F,\h062F,\h064E,\h0629,\h064F>>), <<\h0671,\h0644,\h06E1,\h0645,\h064E,\h0648,\h06E1,\h0621,\h064F,\h06E5,\h062F,\h064E,\h0629,\h064F>>, NoPOS, {}, {}, {}, {}),
  \* line 426
  Rule("min-u-7", None, None, None, None,
       L(<<\h0648,\h064F>>), <<\h0648,\h064F,\h06E5>>, NoPOS, {}, {}, {}, RESTRICT_INDEXES_MIN_U_7),
  \* line 427
  Rule("min-u-8", None, None, None, None,
       L(<<\h0644,\h0650,\h06CC,\h064E,\h0633,\h064F>>) \o <<Opt(<<Grp(1, <<L(<<\h0640>>)>>)>>)>> \o L(<<\h0654,\h064F,\h0648,\h0627>>), <<\h0644,\h0650,\h06CC,\h064E,\h0633,\h064F,\h06E5,-1,\h0654,\h064F,\h0648,\h0627>>, NoPOS, {}, {}, {}, {<<17,7,12>>}),
  \* line 429
  Rule("HI", <<Behind(<<In({\h064E,\h064F,\h0650})>>)>> \o L(<<\h0647,\h0650>>), <<NotIn({\h0671})>>, <<\h0647,\h0650,\h06E6>>, None,
       None, None, NoPOS, {}, {}, {}, {}),
  \* line 431
  Rule("min-y-1", None, None, None, None,
       L(<<\h0625,\h0650,\h0628,\h06E1,\h0631,\h064E,\h0670,\h0647,\h0650,\h0645>>), <<\h0625,\h0650,\h0628,\h06E1,\h0631,\h064E,\h0670,\h0647,\h0650,\h06E7,\h0645>>, NoPOS, {}, {}, {}, {}),
  \* line 432
  Rule("min-y-2", None, None, None, None,
       L(<<\h0646,\h0651,\h064E,\h0628,\h0650,\h06CC,\h0651,\h0650>>), <<\h0646,\h0651,\h064E,\h0628,\h0650,\h06CC,\h0651,\h0650,\h06E7>>, NoPOS, EXCLUDE_INDEXES_MIN_Y_2, {}, {}, {}),
  \* line 433
  Rule("min-y-3", <<Bol>> \o L(<<\h06CC,\h064F,\h062D,\h06E1,\h06CC,\h0650>>) \o <<Eol>>, <<NotIn({\h0671})>>, <<\h06CC,\h064F,\h062D,\h06E1,\h06CC,\h0650,\h06E6>>, None,
       None, None, NoPOS, {}, {}, {}, {}),
  \* line 434
  Rule("min-y-4", None, None, None, None,
       <<Grp(1, <<<<Dot>>>>)>> \o <<Eol>>, <<-1,\h06E6>>, NoPOS, {}, {}, {}, RESTRICT_INDEXES_MIN_Y_4),
  \* line 435
  Rule("min-y-5", None, None, None, None,
       L(<<\h0650,\h0646,\h064E>>) \o <<Eol>>, <<\h0650,\h06E7,\h0646,\h064E>>, NoPOS, {}, {}, {}, RESTRICT_INDEXES_MIN_5),
  \* line 436
  Rule("min-y-6", None, None, None, None,
       L(<<\h0621,\h064E,\h0627,\h062A,\h064E,\h0649,\h0670,\h0646,\h0650>>), <<\h0621,\h064E,\h0627,\h062A,\h064E,\h0649,\h0670,\h0646,\h0650,\h06E6>>, NoPOS, {}, {}, {}, {<<27,36,8>>}),
  \* line 437
  Rule("min-y-7", None, None, None, None,
       L(<<\h0625,\h0650,\h0644,\h064E,\h0670,\h0641,\h0650,\h0647,\h0650,\h0645,\h06E1>>), <<\h0625,\h0650,\h06E7,\h0644,\h064E,\h0670,\h0641,\h0650,\h0647,\h0650,\h0645,\h06E1>>, NoPOS, {}, {}, {}, {<<106,2,1>>}),
  \* line 438
  Rule("min-y-8", None, None, None, None,
       L(<<\h062D,\h06E1,\h0650,\h06CC>>), <<\h062D,\h06E1,\h06E7,\h0650,\h06CC>>, NoPOS, {}, {}, {}, {<<25,49,1>>, <<46,33,15>>, <<75,40,6>>}),
  \* line 439
  Rule("min-y-9", None, None, None, None,
       L(<<\h0648,\h064E,\h0644,\h0650,\h0651,\h0650,\h06CC>>), <<\h0648,\h064E,\h0644,\h0650,\h06E7,\h0651,\h0650,\h06CC>>, NoPOS, {}, {}, {}, {<<7,196,2>>}),
  \* line 440
  Rule("min-y-A", None, None, None, None,
       L(<<\h06CC,\h064E,\h0633,\h06E1,\h062A,\h064E,\h062D,\h06E1,\h06CC,\h0650>>), <<\h06CC,\h064E,\h0633,\h06E1,\h062A,\h064E,\h062D,\h06E1,\h06CC,\h0650,\h06E6>>, NoPOS, {}, {}, {}, {<<2,26,5>>}),
  \* line 442
  Rule("MADD-hmz", <<Grp(1, <<L(<<\h064E,\h0627>>),L(<<\h064E,\h06CC,\h0670>>),L(<<\h064F>>) \o <<In({\h0648,\h06E5})>>,L(<<\h0650>>) \o <<In({\h06CC,\h06E6})>>>>)>>, <<Grp(0, <<<<In(HAMZA)>>,<<In({\h0649,\h06CC})>> \o L(<<\h0655>>),L(<<\h0654>>)>>)>>, <<-1,\h0653>>, None,
       <<Grp(1, <<L(<<\h064E>>) \o <<In({\h0627,\h0670})>>,L(<<\h064F>>) \o <<In({\h0648,\h06E5})>>,L(<<\h0650>>) \o <<In({\h06CC,\h06E6})>>>>)>> \o <<Ahead(<<Opt(L(<<\h0640>>))>> \o <<Grp(0, <<<<In(HAMZA)>>,<<In({\h0649,\h06CC})>> \o L(<<\h0655>>),L(<<\h0654>>)>>)>>)>>, <<-1,\h0653>>, NoPOS, MADD_HMZ_EXCEPTION, {}, {}, {}),
  \* line 443
  Rule("MADD-hmz-A-sil", L(<<\h064F,\h0648,\h0627,\h06DF>>), <<Grp(0, <<<<In(HAMZA)>>,<<In({\h0649,\h06CC})>> \o L(<<\h0655>>)>>)>>, <<\h064F,\h0648,\h0653,\h0627,\h06DF>>, None,
       None, None, NoPOS, {}, {}, {}, {}),
  \* line 444
  Rule("MADD-hmz-sp-1", None, None, None, None,
       L(<<\h062A,\h064E,\h0644,\h06E1,\h0648,\h064F,\h06E5,\h0627,\h06DF>>), <<\h062A,\h064E,\h0644,\h06E1,\h0648,\h064F,\h06E5,\h0653,\h0627,\h06DF>>, NoPOS, {}, {}, {}, {}),
  \* line 445
  Rule("MADD-hmz-sp-2", None, None, None, None,
       L(<<\h0641,\h064E,\h0623,\h06E1,\h0648,\h064F,\h06E5,\h0627,\h06DF>>), <<\h0641,\h064E,\h0623,\h06E1,\h0648,\h064F,\h06E5,\h0653,\h0627,\h06DF>>, NoPOS, {}, {}, {}, {}),
  \* line 446
  Rule("MADD-hmz-sp-3", None, None, None, None,
       L(<<\h0648,\h064E,\h062C,\h0650,\h0627,\h06DF,\h06CC,\h0621,\h064E>>), <<\h0648,\h064E,\h062C,\h0650,\h0627,\h06DF,\h06CC,\h0653,\h0621,\h064E>>, NoPOS, {}, {}, {}, {}),
  \* line 447
  Rule("MADD-hmz-sp-4", L(<<\h0671,\h0644,\h0631,\h0651,\h0650,\h0628,\h064E,\h0648,\h0670,\h0627,\h06DF>>), <<In(HAMZA)>>, <<\h0671,\h0644,\h0631,\h0651,\h0650,\h0628,\h064E,\h0648,\h0670,\h0653,\h0627,\h06DF>>, None,
       None, None, NoPOS, {}, {}, {}, {}),
  \* line 450
  Rule("MADD-lzm", None, None, None, None,
       <<Grp(1, <<L(<<\h064E>>) \o <<In({\h0627,\h0670})>>,L(<<\h064F,\h0648>>),L(<<\h0650,\h06CC>>)>>)>> \o <<Ahead(<<In(CONS)>> \o <<In({\h0621,\h0623,\h0624,\h0625,\h0626,\h0628,\h062A,\h062B,\h062C,\h062D,\h062E,\h062F,\h0630,\h0631,\h0632,\h0633,\h0634,\h0635,\h0636,\h0637,\h0638,\h0639,\h063A,\h0641,\h0642,\h0643,\h0644,\h0645,\h0646,\h0647,\h0648,\h0651,\h0652,\h06CC})>>)>>, <<-1,\h0653>>, NoPOS, {}, {}, {}, {}),
  \* line 451
  Rule("MADD-shdd-skn", None, None, None, None,
       L(<<\h064E,\h0627>>) \o <<Grp(1, <<<<In(CONS)>>>>)>> \o <<Ahead(<<In({\h0651,\h06E1})>>)>>, <<\h064E,\h0627,\h0653,-1>>, NoPOS, {}, {}, {}, {}),
  \* line 452
  Rule("MADD-sp-1", None, None, None, None,
       <<Bol>> \o L(<<\h0627,\h0644,\h0645>>) \o <<Eol>>, <<\h0627,\h0644,\h0653,\h0645,\h0653>>, NoPOS, {}, {}, {}, {}),
  \* line 453
  Rule("MADD-sp-2", None, None, None, None,
       <<Bol>> \o L(<<\h0637,\h0633,\h0645>>) \o <<Eol>>, <<\h0637,\h0633,\h0653,\h0645,\h0653>>, NoPOS, {}, {}, {}, {}),
  \* line 454
  Rule("MADD-sp-3", None, None, None, None,
       <<Bol>> \o L(<<\h0637,\h0633>>) \o <<Eol>>, <<\h0637,\h0633,\h0653>>, NoPOS, {}, {}, {}, {}),
  \* line 455
  Rule("MADD-sp-4", None, None, None, None,
       <<Bol>> \o L(<<\h06CC,\h0633>>) \o <<Eol>>, <<\h06CC,\h0633,\h0653>>, NoPOS, {}, {}, {}, {}),
  \* line 456
  Rule("MADD-sp-5", None, None, None, None,
       <<Bol>> \o L(<<\h062D,\h0645>>) \o <<Eol>>, <<\h062D,\h0645,\h0653>>, NoPOS, {}, {}, {}, {}),
  \* line 457
  Rule("MADD-sp-6", None, None, None, None,
       <<Bol>> \o L(<<\h0643,\h0647,\h06CC,\h0639,\h0635>>) \o <<Eol>>, <<\h0643,\h0653,\h0647,\h06CC,\h0639,\h0653,\h0635,\h0653>>, NoPOS, {}, {}, {}, {}),
  \* line 458
  Rule("MADD-sp-7", None, None, None, None,
       <<Bol>> \o L(<<\h0627,\h0644,\h0631>>) \o <<Eol>>, <<\h0627,\h0644,\h0653,\h0631>>, NoPOS, {}, {}, {}, {}),
  \* line 459
  Rule("MADD-sp-8", None, None, None, None,
       <<Bol>> \o L(<<\h0627,\h0644,\h0645,\h0635>>) \o <<Eol>>, <<\h0627,\h0644,\h0653,\h0645,\h0653,\h0635,\h0653>>, NoPOS, {}, {}, {}, {}),
  \* line 460
  Rule("MADD-sp-9", None, None, None, None,
       <<Bol>> \o L(<<\h0627,\h0644,\h0645,\h0631>>) \o <<Eol>>, <<\h0627,\h0644,\h0653,\h0645,\h0653,\h0631>>, NoPOS, {}, {}, {}, {}),
  \* line 461
  Rule("MADD-sp-A", None, None, None, None,
       <<Bol>> \o L(<<\h0635>>) \o <<Eol>>, <<\h0635,\h0653>>, NoPOS, {}, {}, {}, {}),
  \* line 462
  Rule("MADD-sp-B", None, None, None, None,
       <<Bol>> \o L(<<\h0639,\h0633,\h0642>>) \o <<Eol>>, <<\h0639,\h0653,\h0633,\h0653,\h0642,\h0653>>, NoPOS, {}, {}, {}, {}),
  \* line 463
  Rule("MADD-sp-C", None, None, None, None,
       <<Bol>> \o L(<<\h0642>>) \o <<Eol>>, <<\h0642,\h0653>>, NoPOS, {}, {}, {}, {}),
  \* line 464
  Rule("MADD-sp-D", None, None, None, None,
       <<Bol>> \o L(<<\h0646>>) \o <<Eol>>, <<\h0646,\h0653>>, NoPOS, {}, {}, {}, {})
>>

(***************************************************************************)
(* Tokens and the morphological table.  A token is the pair [text, index]  *)
(* of the source (tokens[i][0], tokens[i][1]); an index is the triple      *)
(* (sura, verse, word).  QURAN holds words of the corpus as the library    *)
(* yields them, in runs of consecutive words; QMORF holds their rows of    *)
(* the morphological table (the 'pos' and 'roots' entries that apply_rules *)
(* reads), keyed by "sura,verse,word".                                     *)
(***************************************************************************)
Token(tok, ind) == [tok |-> tok, ind |-> ind]

Morf(pos, roots) == [pos |-> pos, roots |-> roots]

QURAN == <<
  \* Q.23:59:2-3, the documented case of M1 (line 143)
  << Token(<<\h0647,\h064F,\h0645>>,
          <<23,59,2>>),
     Token(<<\h0628,\h0650,\h0631,\h064E,\h0628,\h0651,\h0650,\h0647,\h0650,\h0645,\h06E1>>,
          <<23,59,3>>) >>,
  \* Q.11:42:14-15, MTJNS-bm (line 259)
  << Token(<<\h0671,\h0631,\h06E1,\h0643,\h064E,\h0628>>,
          <<11,42,14>>),
     Token(<<\h0645,\h0651,\h064E,\h0639,\h064E,\h0646,\h064E,\h0627>>,
          <<11,42,15>>) >>,
  \* Q.2:112:8-10, MADD-hmz and HU (lines 201, 267)
  << Token(<<\h0641,\h064E,\h0644,\h064E,\h0647,\h064F,\h06E5,\h0653>>,
          <<2,112,8>>),
     Token(<<\h0623,\h064E,\h062C,\h06E1,\h0631,\h064F,\h0647,\h064F,\h06E5>>,
          <<2,112,9>>),
     Token(<<\h0639,\h0650,\h0646,\h062F,\h064E>>,
          <<2,112,10>>) >>,
  \* Q.39:7:13-14, the exception of HU (line 267)
  << Token(<<\h06CC,\h064E,\h0631,\h06E1,\h0636,\h064E,\h0647,\h064F>>,
          <<39,7,13>>),
     Token(<<\h0644,\h064E,\h0643,\h064F,\h0645,\h06E1>>,
          <<39,7,14>>) >>,
  \* Q.25:69:7-8, min-y-4 (lines 78, 284)
  << Token(<<\h0641,\h0650,\h06CC,\h0647,\h0650,\h06E6>>,
          <<25,69,7>>),
     Token(<<\h0645,\h064F,\h0647,\h064E,\h0627,\h0646,\h064B,\h0627>>,
          <<25,69,8>>) >>,
  \* Q.19:46:9-10, HI and a root in -hy (line 582)
  << Token(<<\h062A,\h064E,\h0646,\h062A,\h064E,\h0647,\h0650>>,
          <<19,46,9>>),
     Token(<<\h0644,\h064E,\h0623,\h064E,\h0631,\h06E1,\h062C,\h064F,\h0645,\h064E,\h0646,\h0651,\h064E,\h0643,\h064E>>,
          <<19,46,10>>) >>,
  \* Q.11:41:7, hapax-1 (line 332)
  << Token(<<\h0645,\h064E,\h062C,\h06E1,\h0631,\h06EA,\h0649,\h0670,\h0647,\h064E,\h0627>>,
          <<11,41,7>>) >>,
  \* Q.12:11:6, hapax-2 (line 333)
  << Token(<<\h062A,\h064E,\h0623,\h06E1,\h0645,\h064E,\h06EB,\h0646,\h0651,\h064E,\h0627>>,
          <<12,11,6>>) >>,
  \* Q.41:44:9-10, hapax-3 (line 334)
  << Token(<<\h0621,\h064E,\h0627,\h06EC,\h0639,\h06E1,\h062C,\h064E,\h0645,\h0650,\h06CC,\h0651,\h08F1>>,
          <<41,44,9>>),
     Token(<<\h0648,\h064E,\h0639,\h064E,\h0631,\h064E,\h0628,\h0650,\h06CC,\h0651,\h08F1>>,
          <<41,44,10>>) >>,
  \* Q.1:7:9, SHMS and MADD-lzm (line 213)
  << Token(<<\h0671,\h0644,\h0636,\h0651,\h064E,\h0627,\h0653,\h0644,\h0651,\h0650,\h06CC,\h0646,\h064E>>,
          <<1,7,9>>) >>,
  \* Q.33:66:11, SHMS and P-sil-1 (line 304)
  << Token(<<\h0671,\h0644,\h0631,\h0651,\h064E,\h0633,\h064F,\h0648,\h0644,\h064E,\h0627,\h06E0>>,
          <<33,66,11>>) >>,
  \* Q.6:124:21, Sil-1 (line 312)
  << Token(<<\h0623,\h064E,\h062C,\h06E1,\h0631,\h064E,\h0645,\h064F,\h0648,\h0627,\h06DF>>,
          <<6,124,21>>) >>,
  \* Q.9:124:10-11, MADD-hmz; the second word carries a stop sign (line 201)
  << Token(<<\h0647,\h064E,\h0670,\h0630,\h0650,\h0647,\h0650,\h06E6,\h0653>>,
          <<9,124,10>>),
     Token(<<\h0625,\h0650,\h06CC,\h0645,\h064E,\h0670,\h0646,\h08F0,\h0627,\h06DA>>,
          <<9,124,11>>) >>,
  \* Q.20:1:5, two bare consonants (line 484)
  << Token(<<\h0637,\h0647>>,
          <<20,1,5>>) >>,
  \* Q.3:13:7, a verb that begins like the article before a sun letter (SHMS, line 392)
  << Token(<<\h0671,\h0644,\h06E1,\h062A,\h064E,\h0642,\h064E,\h062A,\h064E,\h0627,\h06D6>>,
          <<3,13,7>>) >>
>>

QMORF ==
  ("23,59,2" :> Morf(<<"P">>, <<>>)) @@
  ("23,59,3" :> Morf(<<"N">>, <<<<\h0631,\h0628,\h0628>>>>)) @@
  ("11,42,14" :> Morf(<<"V">>, <<<<\h0631,\h0643,\h0628>>>>)) @@
  ("11,42,15" :> Morf(<<"P">>, <<>>)) @@
  ("2,112,8" :> Morf(<<"P">>, <<>>)) @@
  ("2,112,9" :> Morf(<<"N">>, <<<<\h0623,\h062C,\h0631>>>>)) @@
  ("2,112,10" :> Morf(<<"N">>, <<<<\h0639,\h0646,\h062F>>>>)) @@
  ("39,7,13" :> Morf(<<"V">>, <<<<\h0631,\h0636,\h0648>>>>)) @@
  ("39,7,14" :> Morf(<<"P">>, <<>>)) @@
  ("25,69,7" :> Morf(<<"P">>, <<>>)) @@
  ("25,69,8" :> Morf(<<"N">>, <<<<\h0647,\h0648,\h0646>>>>)) @@
  ("19,46,9" :> Morf(<<"V">>, <<<<\h0646,\h0647,\h064A>>>>)) @@
  ("19,46,10" :> Morf(<<"V">>, <<<<\h0631,\h062C,\h0645>>>>)) @@
  ("11,41,7" :> Morf(<<"N">>, <<<<\h062C,\h0631,\h064A>>>>)) @@
  ("12,11,6" :> Morf(<<"V">>, <<<<\h0623,\h0645,\h0646>>>>)) @@
  ("41,44,9" :> Morf(<<"N">>, <<<<\h0639,\h062C,\h0645>>>>)) @@
  ("41,44,10" :> Morf(<<"N">>, <<<<\h0639,\h0631,\h0628>>>>)) @@
  ("1,7,9" :> Morf(<<"N">>, <<<<\h0636,\h0644,\h0644>>>>)) @@
  ("33,66,11" :> Morf(<<"N">>, <<<<\h0631,\h0633,\h0644>>>>)) @@
  ("6,124,21" :> Morf(<<"V">>, <<<<\h062C,\h0631,\h0645>>>>)) @@
  ("9,124,10" :> Morf(<<"N">>, <<>>)) @@
  ("9,124,11" :> Morf(<<"N">>, <<<<\h0623,\h0645,\h0646>>>>)) @@
  ("20,1,5" :> Morf(<<"P">>, <<>>)) @@
  ("3,13,7" :> Morf(<<"V">>, <<<<\h0644,\h0642,\h064A>>>>)) @@
  ("2,112,4" :> Morf(<<"N">>, <<<<\h0648,\h062C,\h0647>>>>)) @@
  ("2,112,5" :> Morf(<<"P","N">>, <<<<\h0623,\h0644,\h0647>>>>)) @@
  ("23,19,10" :> Morf(<<"N">>, <<<<\h0641,\h0643,\h0647>>>>)) @@
  ("23,19,11" :> Morf(<<"N">>, <<<<\h0643,\h062B,\h0631>>>>)) @@
  ("7,169,2" :> Morf(<<"P">>, <<>>)) @@
  ("7,169,3" :> Morf(<<"N">>, <<<<\h0628,\h0639,\h062F>>>>)) @@
  ("12,16,1" :> Morf(<<"CONJ","V">>, <<<<\h062C,\h064A,\h0627>>>>)) @@
  ("12,16,2" :> Morf(<<"N">>, <<<<\h0627,\h0628,\h0648>>>>))

\* token lists read with --infile (line 670): the de-tajweed-ized words of
\* Q.23:59:2-3; a word whose index has no row in QMORF; the word of Q.20:1:5;
\* a word with a madda before nun and an ikhfa letter; the words of
\* Q.23:59:2-3 again, the second under an index that has no row in QMORF;
\* the de-tajweed-ized words of Q.2:112:4-5, a root in -h before its enclitic
\* -h; the words of Q.23:19:10-11, a root in -h without enclitic; the word of
\* Q.7:169:2, with a miniature mim, before a word with a miniature sin; the
\* words of Q.23:59:2-3 and of Q.11:42:14-15, four tokens; the
\* de-tajweed-ized words of Q.11:42:14-15 and Q.23:59:2-3, four tokens; the
\* words of Q.23:59:2-3, the second under an index that has no row in QMORF;
\* the words of Q.12:16:1-2, a madda inside the first word and one at its end,
\* before the hamza of the second
INFILE == <<
  << Token(<<\h0647,\h064F,\h0645,\h06E1>>, <<23,59,2>>),
     Token(<<\h0628,\h0650,\h0631,\h064E,\h0628,\h0651,\h0650,\h0647,\h0650,\h0645,\h06E1>>, <<23,59,3>>) >>,
  << Token(<<\h0647,\h064F,\h0645>>, <<115,1,1>>) >>,
  << Token(<<\h0637,\h0647>>, <<20,1,5>>) >>,
  << Token(<<\h0648,\h064E,\h0627,\h0653,\h0646,\h0630,\h064E>>, <<2,112,10>>) >>,
  << Token(<<\h0647,\h064F,\h0645,\h06E1>>, <<23,59,2>>),
     Token(<<\h0628,\h0650,\h0631,\h064E,\h0628,\h0651,\h0650,\h0647,\h0650,\h0645,\h06E1>>, <<115,1,1>>) >>,
  << Token(<<\h0648,\h064E,\h062C,\h06E1,\h0647,\h064E,\h0647,\h064F>>, <<2,112,4>>),
     Token(<<\h0644,\h0650,\h0644,\h0651,\h064E,\h0647,\h0650>>, <<2,112,5>>) >>,
  << Token(<<\h0641,\h064E,\h0648,\h064E,\h0670,\h0643,\h0650,\h0647,\h064F>>, <<23,19,10>>),
     Token(<<\h0643,\h064E,\h062B,\h0650,\h06CC,\h0631,\h064E,\h0629,\h064C>>, <<23,19,11>>) >>,
  << Token(<<\h0645,\h0650,\h0646,\h06E2>>, <<7,169,2>>),
     Token(<<\h0645,\h064E,\h0646,\h06E1,\h06DC>>, <<7,169,3>>) >>,
  << Token(<<\h0647,\h064F,\h0645>>, <<23,59,2>>),
     Token(<<\h0628,\h0650,\h0631,\h064E,\h0628,\h0651,\h0650,\h0647,\h0650,\h0645,\h06E1>>, <<23,59,3>>),
     Token(<<\h0671,\h0631,\h06E1,\h0643,\h064E,\h0628>>, <<11,42,14>>),
     Token(<<\h0645,\h0651,\h064E,\h0639,\h064E,\h0646,\h064E,\h0627>>, <<11,42,15>>) >>,
  << Token(<<\h0671,\h0631,\h06E1,\h0643,\h064E,\h0628,\h06E1>>, <<11,42,14>>),
     Token(<<\h0645,\h064E,\h062C,\h06E1,\h0631,\h0649,\h0670,\h0647,\h064E,\h0627>>, <<11,42,15>>),
     Token(<<\h0647,\h064F,\h0645,\h06E1>>, <<23,59,2>>),
     Token(<<\h0628,\h0650,\h0631,\h064E,\h0628,\h0651,\h0650,\h0647,\h0650,\h0645,\h06E1>>, <<23,59,3>>) >>,
  << Token(<<\h0647,\h064F,\h0645>>, <<23,59,2>>),
     Token(<<\h0628,\h0650,\h0631,\h064E,\h0628,\h0651,\h0650,\h0647,\h0650,\h0645,\h06E1>>, <<115,1,1>>) >>,
  << Token(<<\h0648,\h064E,\h062C,\h064E,\h0627,\h0653,\h0621,\h064F,\h0648,\h0653>>, <<12,16,1>>),
     Token(<<\h0623,\h064E,\h0628,\h064E,\h0627,\h0647,\h064F,\h0645,\h06E1>>, <<12,16,2>>) >>
>>

\* the longest token list of a run
MaxTokens == 3

\* the runs of at most MaxTokens consecutive words of the corpus
Ranges ==
  UNION {{SubSeq(QURAN[f], a, a + n - 1) : a \in 1..(Len(QURAN[f]) - n + 1)} :
         f \in DOMAIN QURAN, n \in 1..MaxTokens}

NotStop(c) == c \notin QSTOPS_REGEX

preproc(s) == SelectSeq(s, NotStop)

\* the consonantal skeleton of a word: its letters, without marks
IsLetter(c) == c \in ((\h0621..\h064A) \ {\h0640}) \cup {\h0671, \h06CC}

rasm(s) == SelectSeq(s, IsLetter)

ind_key(ind) == ToString(ind[1]) \o "," \o ToString(ind[2]) \o "," \o ToString(ind[3])

\* s[-2:] and s[-1] of a text
Last2(s) == SubSeq(s, IF Len(s) > 2 THEN Len(s) - 1 ELSE 1, Len(s))

Last1(s) == SubSeq(s, Len(s), Len(s))

Range(s) == {s[k] : k \in DOMAIN s}

\* ' '.join(texts)
RECURSIVE Join(_)
Join(texts) ==
  IF Len(texts) = 0 THEN <<>>
  ELSE IF Len(texts) = 1 THEN texts[1]
  ELSE texts[1] \o <<32>> \o Join(Tail(texts))

Texts(tokens) == [k \in DOMAIN tokens |-> tokens[k].tok]

RECURSIVE Sum(_)
Sum(traces) == IF Len(traces) = 0 THEN 0 ELSE Head(traces)[2] + Sum(Tail(traces))

(***************************************************************************)
(* apply_rules, lines 539-629: one iteration of the loop over the rules,   *)
(* for the token at position i (0-based, as in the source).                *)
(***************************************************************************)
\* variant of restricted: the restriction set is not consulted
unrestricted(rule, ind) == FALSE

\* line 565
restricted(rule, ind) == rule.restrict_ind # {} /\ ind \notin rule.restrict_ind

\* variant of excepted: the exception set is not consulted
unexcepted(rule, ind) == FALSE

\* line 568
excepted(rule, ind) == ind \in rule.except_ind

\* variant of enclitic: no rule is taken for a rule of the enclitic -h
enclitic_none(rule, ind) == FALSE

\* line 575
enclitic(rule, ind) == ind \notin rule.force_ind /\ rule.id_rule \in {"HU", "HI"}

\* lines 571 and 578: the iteration reads the row of ind in the table
reads_qmorf(rule, ind) ==
  /\ ~restricted(rule, ind)
  /\ ~excepted(rule, ind)
  /\ rule.FILTER_POS # NoPOS \/ enclitic(rule, ind)

\* variant of filtered: the POS filter is not consulted
unfiltered(rule, ind) == FALSE

\* line 571
filtered(rule, ind) ==
  rule.FILTER_POS # NoPOS /\ rule.FILTER_POS \notin Range(QMORF[ind_key(ind)].pos)

\* lines 575-585: the final h of HU and HI belongs to the lemma
lemma_h(rule, ind, wordform_rasm) ==
  /\ enclitic(rule, ind)
  /\ LET roots == QMORF[ind_key(ind)].roots
     IN \/ /\ Len(roots) > 0
           /\ \E k \in DOMAIN roots : Last1(roots[k]) = <<\h0647>>
           /\ Last2(wordform_rasm) # <<\h0647, \h0647>>
        \/ /\ \E k \in DOMAIN roots : Last2(roots[k]) = <<\h0647, \h064A>>
           /\ Last2(wordform_rasm) # <<\h0647, \h0647>>

\* the four "continue" of lines 565-585
skipped(rule, ind, wordform_rasm) ==
  \/ restricted(rule, ind)
  \/ excepted(rule, ind)
  \/ filtered(rule, ind)
  \/ lemma_h(rule, ind, wordform_rasm)

\* variant of append: an entry is appended for a count of zero too
append_zero(counts, has_counts, id_rule, ind, cnt, is_boundary) ==
  IF has_counts
  THEN IF id_rule \in DOMAIN counts
       THEN [counts EXCEPT ![id_rule] = Append(@, <<ind, cnt, is_boundary>>)]
       ELSE (id_rule :> <<<<ind, cnt, is_boundary>>>>) @@ counts
  ELSE counts

\* variant of append: the entry is put at the head of the trace
append_front(counts, has_counts, id_rule, ind, cnt, is_boundary) ==
  IF has_counts /\ cnt # 0
  THEN IF id_rule \in DOMAIN counts
       THEN [counts EXCEPT ![id_rule] = <<<<ind, cnt, is_boundary>>>> \o @]
       ELSE (id_rule :> <<<<ind, cnt, is_boundary>>>>) @@ counts
  ELSE counts

\* lines 592-596 and 625-629
append(counts, has_counts, id_rule, ind, cnt, is_boundary) ==
  IF has_counts /\ cnt # 0
  THEN IF id_rule \in DOMAIN counts
       THEN [counts EXCEPT ![id_rule] = Append(@, <<ind, cnt, is_boundary>>)]
       ELSE (id_rule :> <<<<ind, cnt, is_boundary>>>>) @@ counts
  ELSE counts

\* line 588
at_boundary(rule, tokens, i) ==
  /\ rule.tok_pre # None
  /\ i < Len(tokens) - 1
  /\ re_search(rule.tok_pre \o <<Eol>>, tokens[i+1].tok)
  /\ re_search(<<Bol>> \o rule.tok_post, tokens[i+2].tok)

\* variant of modified: the text of token i is not written back (line 614)
modified_next_only(m, rule, tokens, i) ==
  [tokens |-> IF rule.repl_post # None
              THEN [tokens EXCEPT ![i+2].tok = re_sub(<<Bol>> \o rule.tok_post, rule.repl_post, @)]
              ELSE tokens,
   cnt |-> m.cnt]

\* variant of modified: the next token is written as a pair, with the index
\* of token i
modified_pair(m, rule, tokens, i) ==
  [tokens |-> IF rule.repl_post # None
              THEN [tokens EXCEPT ![i+1].tok = m.str,
                                  ![i+2] = Token(re_sub(<<Bol>> \o rule.tok_post, rule.repl_post, @.tok),
                                                 tokens[i+1].ind)]
              ELSE [tokens EXCEPT ![i+1].tok = m.str],
   cnt |-> m.cnt]

\* variant of modified: without a repl_post the matched head of the next
\* token is replaced by the empty text
modified_head(m, rule, tokens, i) ==
  [tokens |-> [tokens EXCEPT ![i+1].tok = m.str,
                             ![i+2].tok = re_sub(<<Bol>> \o rule.tok_post, rule.repl_post, @)],
   cnt |-> m.cnt]

\* lines 590-614
modified(m, rule, tokens, i) ==
  [tokens |-> IF rule.repl_post # None
              THEN [tokens EXCEPT ![i+1].tok = m.str,
                                  ![i+2].tok = re_sub(<<Bol>> \o rule.tok_post, rule.repl_post, @)]
              ELSE [tokens EXCEPT ![i+1].tok = m.str],
   cnt |-> m.cnt]

\* lines 588-614: the boundary form of the rule
boundary(rule, tokens, i) ==
  IF at_boundary(rule, tokens, i)
  THEN modified(re_subn(rule.tok_pre \o <<Eol>>, rule.repl_pre, tokens[i+1].tok), rule, tokens, i)
  ELSE [tokens |-> tokens, cnt |-> 0]

\* lines 617-629: the intra form of the rule, after its boundary form b
replaced(m, b, i) ==
  [tokens |-> [b.tokens EXCEPT ![i+1].tok = m.str], cnt |-> m.cnt, bcnt |-> b.cnt]

\* variant of intra: the pattern is replaced in every token of the list
intra_all(rule, b, i) ==
  IF rule.pat # None
  THEN [tokens |-> [k \in DOMAIN b.tokens |->
                      [b.tokens[k] EXCEPT !.tok = re_sub(rule.pat, rule.repl, @)]],
        cnt |-> re_subn(rule.pat, rule.repl, b.tokens[i+1].tok).cnt,
        bcnt |-> b.cnt]
  ELSE [tokens |-> b.tokens, cnt |-> 0, bcnt |-> b.cnt]

intra(rule, b, i) ==
  IF rule.pat # None
  THEN replaced(re_subn(rule.pat, rule.repl, b.tokens[i+1].tok), b, i)
  ELSE [tokens |-> b.tokens, cnt |-> 0, bcnt |-> b.cnt]

\* the tokens, and the counts with the entries of the two forms
traced(n, id_rule, ind, counts, has_counts) ==
  [tokens |-> n.tokens,
   counts |-> append(append(counts, has_counts, id_rule, ind, n.bcnt, TRUE),
                     has_counts, id_rule, ind, n.cnt, FALSE)]

\* variant of apply_rule: a rule that has a trace in the sink is not applied again
apply_rule_once(rule, tokens, i, wordform_rasm, counts, has_counts) ==
  IF skipped(rule, tokens[i+1].ind, wordform_rasm)
     \/ (has_counts /\ rule.id_rule \in DOMAIN counts /\ counts[rule.id_rule] # <<>>)
  THEN [tokens |-> tokens, counts |-> counts]
  ELSE traced(intra(rule, boundary(rule, tokens, i), i),
              rule.id_rule, tokens[i+1].ind, counts, has_counts)

\* lines 559-629: the tokens and the counts after rule at position i
apply_rule(rule, tokens, i, wordform_rasm, counts, has_counts) ==
  IF skipped(rule, tokens[i+1].ind, wordform_rasm)
  THEN [tokens |-> tokens, counts |-> counts]
  ELSE traced(intra(rule, boundary(rule, tokens, i), i),
              rule.id_rule, tokens[i+1].ind, counts, has_counts)

(***************************************************************************)
(* The residual sweep, lines 755-803.                                      *)
(***************************************************************************)
SUKUN_REGEX ==
  <<In(CONS)>> \o <<NotBehind(<<Grp(0, <<L(<<\h064F,\h0648>>), L(<<\h0650,\h06CC>>)>>)>>)>> \o <<In(CONS)>>

SHADDA_REGEX == <<Bol>> \o <<In(CONS)>> \o L(<<\h0651>>)

TANWIN_REGEX ==
  <<Grp(0, <<<<In({\h08F0,\h08F1,\h08F2})>>, L(<<\h064E,\h06E2>>), L(<<\h064F,\h06E2>>), L(<<\h0650,\h06ED>>)>>)>>

Has(tok, marks) == Range(tok) \cap marks # {}

\* the elif chain of lines 765-803: the code of the warning of a token, "" for none
warning(tok, ind) ==
  IF re_search(SUKUN_REGEX, tok) /\ ind \notin EXCEPTIONS_SUKUN THEN "WARNING-1"
  ELSE IF re_search(SHADDA_REGEX, tok) THEN "WARNING-2"
  ELSE IF re_search(TANWIN_REGEX, tok) THEN "WARNING-3"
  ELSE IF Has(tok, {\h0653, \h0622}) THEN "WARNING-4"
  ELSE IF Has(tok, {\h06E0}) THEN "WARNING-5"
  ELSE IF Has(tok, {\h06E6, \h06E7}) THEN "WARNING-6"
  ELSE IF Has(tok, {\h06E5}) THEN "WARNING-7"
  ELSE IF Has(tok, {\h06DF}) THEN "WARNING-8"
  ELSE IF Has(tok, {\h06EA}) THEN "WARNING-9"
  ELSE IF Has(tok, {\h06EB}) THEN "WARNING-A"
  ELSE IF Has(tok, {\h06EC}) THEN "WARNING-B"
  ELSE IF Has(tok, {\h06E2}) THEN "WARNING-C"
  ELSE IF Has(tok, {\h06DC}) THEN "WARNING-C"
  ELSE ""

\* the elif chain of lines 765-803: the number of the branch a token takes, 0
\* for none
branch(tok, ind) ==
  IF re_search(SUKUN_REGEX, tok) /\ ind \notin EXCEPTIONS_SUKUN THEN 1
  ELSE IF re_search(SHADDA_REGEX, tok) THEN 2
  ELSE IF re_search(TANWIN_REGEX, tok) THEN 3
  ELSE IF Has(tok, {\h0653, \h0622}) THEN 4
  ELSE IF Has(tok, {\h06E0}) THEN 5
  ELSE IF Has(tok, {\h06E6, \h06E7}) THEN 6
  ELSE IF Has(tok, {\h06E5}) THEN 7
  ELSE IF Has(tok, {\h06DF}) THEN 8
  ELSE IF Has(tok, {\h06EA}) THEN 9
  ELSE IF Has(tok, {\h06EB}) THEN 10
  ELSE IF Has(tok, {\h06EC}) THEN 11
  ELSE IF Has(tok, {\h06E2}) THEN 12
  ELSE IF Has(tok, {\h06DC}) THEN 13
  ELSE 0

\* the codes the branches print, in the order of the chain (lines 766-802)
CODE ==
  <<"WARNING-1", "WARNING-2", "WARNING-3", "WARNING-4", "WARNING-5", "WARNING-6", "WARNING-7",
    "WARNING-8", "WARNING-9", "WARNING-A", "WARNING-B", "WARNING-C", "WARNING-C">>

\* the test of each branch of the chain, taken alone (lines 765-801)
Class(c, tok, ind) ==
  CASE c = 1 -> re_search(SUKUN_REGEX, tok) /\ ind \notin EXCEPTIONS_SUKUN
    [] c = 2 -> re_search(SHADDA_REGEX, tok)
    [] c = 3 -> re_search(TANWIN_REGEX, tok)
    [] c = 4 -> Has(tok, {\h0653, \h0622})
    [] c = 5 -> Has(tok, {\h06E0})
    [] c = 6 -> Has(tok, {\h06E6, \h06E7})
    [] c = 7 -> Has(tok, {\h06E5})
    [] c = 8 -> Has(tok, {\h06DF})
    [] c = 9 -> Has(tok, {\h06EA})
    [] c = 10 -> Has(tok, {\h06EB})
    [] c = 11 -> Has(tok, {\h06EC})
    [] c = 12 -> Has(tok, {\h06E2})
    [] c = 13 -> Has(tok, {\h06DC})

(***************************************************************************)
(* The program, lines 632-805.                                             *)
(*   tables            the rule tables the program is loaded with          *)
(*   ranges            the input and the two cursors of a pass that is     *)
(*                     split in two ranges of positions; no cursor for the *)
(*                     one loop of line 555                                *)
(*   mode, infile      the option --rm, --add or --eval; --infile given    *)
(*   qtokens           the tokens read                                     *)
(*   qtokens_detajweed, qtokens_restored, counts_rm, counts_add            *)
(*                     the copies and the traces of an evaluation          *)
(*   pc                where the program is; i, nrule the position and the *)
(*                     number of the next rule of the running pass;        *)
(*                     wordform_rasm the skeleton taken at position i      *)
(*   report, diff, warnings, cnt, outfile    what the program prints       *)
(*   status, raised    the exit status and the uncaught exception          *)
(***************************************************************************)
VARIABLES ranges, tables, mode, infile, qtokens, qtokens_detajweed, qtokens_restored,
          counts_rm, counts_add, pc, i, nrule, wordform_rasm,
          report, diff, swept, warnings, cnt, outfile, status, raised

vars == <<ranges, tables, mode, infile, qtokens, qtokens_detajweed, qtokens_restored,
          counts_rm, counts_add, pc, i, nrule, wordform_rasm,
          report, diff, swept, warnings, cnt, outfile, status, raised>>

\* lines 648-672: the options are parsed and the tokens read
Read ==
  /\ ranges = [input |-> <<>>, sequential |-> <<>>, cursor |-> <<>>]
  /\ mode \in {"rm", "add", "eval"}
  /\ \/ /\ infile = FALSE
        /\ \E range \in Ranges :
             qtokens = [k \in DOMAIN range |-> Token(preproc(range[k].tok), range[k].ind)]
     \/ /\ infile = TRUE
        /\ \E f \in DOMAIN INFILE : Len(INFILE[f]) <= MaxTokens /\ qtokens = INFILE[f]
  /\ qtokens_detajweed = <<>>
  /\ qtokens_restored = <<>>
  /\ counts_rm = <<>>
  /\ counts_add = <<>>
  /\ pc = "start"
  /\ i = 0
  /\ nrule = 1
  /\ wordform_rasm = <<>>
  /\ report = <<>>
  /\ diff = <<>>
  /\ swept = 0
  /\ warnings = <<>>
  /\ cnt = 0
  /\ outfile = <<>>
  /\ status = "running"
  /\ raised = ""

\* the program as it is shipped: the tables of lines 123-465
Init == tables = "shipped" /\ Read

\* the tables after an edit that leaves the last tuple of the Removal table
\* one element short (no restrict_ind), and after an edit that leaves the id
\* M1 of the Removal table without its entry in the Restoral table
REMOVE_SANDHI_RULES_malformed ==
  [k \in DOMAIN REMOVE_SANDHI_RULES |->
     IF k = Len(REMOVE_SANDHI_RULES)
     THEN [f \in DOMAIN REMOVE_SANDHI_RULES[k] \ {"restrict_ind"} |-> REMOVE_SANDHI_RULES[k][f]]
     ELSE REMOVE_SANDHI_RULES[k]]

NotM1(rule) == rule.id_rule # "M1"

RESTORE_SANDHI_RULES_unpaired == SelectSeq(RESTORE_SANDHI_RULES, NotM1)

\* the tables after an edit that lists the index of the ExceptIndexes of HU,
\* Q.39:7:13, in the ForceIndexes of HU too
ForceExcepted(rule) ==
  IF rule.id_rule = "HU" THEN [rule EXCEPT !.force_ind = rule.except_ind] ELSE rule

REMOVE_SANDHI_RULES_forced ==
  [k \in DOMAIN REMOVE_SANDHI_RULES |-> ForceExcepted(REMOVE_SANDHI_RULES[k])]

RESTORE_SANDHI_RULES_forced ==
  [k \in DOMAIN RESTORE_SANDHI_RULES |-> ForceExcepted(RESTORE_SANDHI_RULES[k])]

\* line 582: the lemma of the word of Q.19:46:9, as the source quotes it
LEMA_19_46_9 == <<\h0671,\h0646,\h062A,\h064E,\h0647,\h064E,\h0649,\h0670>>

\* lines 504, 533: the 'lemas' entry of the row of an index, for the row the
\* source quotes; no other word of QURAN or INFILE is a form of that lemma
lemas(ind) == IF ind = <<19,46,9>> THEN {LEMA_19_46_9} ELSE {}

\* the tables after an edit that lists the lemma of Q.19:46:9 in the
\* EXCLUDE_LEMAS of N4.A, a rule whose intra form matches the word
ExcludeLema(rule) ==
  IF rule.id_rule = "N4.A" THEN [rule EXCEPT !.except_lemas = {LEMA_19_46_9}] ELSE rule

REMOVE_SANDHI_RULES_lemas ==
  [k \in DOMAIN REMOVE_SANDHI_RULES |-> ExcludeLema(REMOVE_SANDHI_RULES[k])]

RESTORE_SANDHI_RULES_lemas ==
  [k \in DOMAIN RESTORE_SANDHI_RULES |-> ExcludeLema(RESTORE_SANDHI_RULES[k])]

\* the program with edited tables
InitLoad == tables \in {"malformed", "unpaired", "forced", "lemas"} /\ Read

\* the tables the program passes to apply_rules (lines 679, 690, 704, 711)
remove_rules ==
  IF tables = "malformed" THEN REMOVE_SANDHI_RULES_malformed
  ELSE IF tables = "forced" THEN REMOVE_SANDHI_RULES_forced
  ELSE IF tables = "lemas" THEN REMOVE_SANDHI_RULES_lemas
  ELSE REMOVE_SANDHI_RULES

restore_rules ==
  IF tables = "unpaired" THEN RESTORE_SANDHI_RULES_unpaired
  ELSE IF tables = "forced" THEN RESTORE_SANDHI_RULES_forced
  ELSE IF tables = "lemas" THEN RESTORE_SANDHI_RULES_lemas
  ELSE RESTORE_SANDHI_RULES

\* the rules of the running pass and the list it mutates
rules == IF pc = "removal" THEN remove_rules ELSE restore_rules

\* lines 559-560: the tuple has the eight elements the loop unpacks
unpacks(rule) == "restrict_ind" \in DOMAIN rule

tokens ==
  IF mode # "eval" THEN qtokens
  ELSE IF pc = "removal" THEN qtokens_detajweed ELSE qtokens_restored

counts == IF pc = "removal" THEN counts_rm ELSE counts_add

\* lines 678-679, 689-690 and 700-704: the first pass is entered
Start ==
  /\ pc = "start"
  /\ pc' = IF mode = "add" THEN "restoral" ELSE "removal"
  /\ counts_rm' = IF mode = "eval"
                  THEN [id_ \in {remove_rules[k].id_rule : k \in DOMAIN remove_rules} |-> <<>>]
                  ELSE counts_rm
  /\ qtokens_detajweed' = IF mode = "eval" THEN qtokens ELSE qtokens_detajweed
  /\ i' = 0
  /\ nrule' = 1
  /\ wordform_rasm' = rasm(qtokens[1].tok)
  /\ UNCHANGED <<ranges, tables, mode, infile, qtokens, qtokens_restored, counts_add,
                 report, diff, swept, warnings, cnt, outfile, status, raised>>

\* variant of Advance: the loop over the positions is the inner loop
Advance_rule_major(res, last, return) ==
  /\ qtokens' = IF mode # "eval" THEN res.tokens ELSE qtokens
  /\ qtokens_detajweed' = IF mode = "eval" /\ pc = "removal"
                          THEN res.tokens ELSE qtokens_detajweed
  /\ qtokens_restored' = IF mode = "eval" /\ pc = "restoral"
                         THEN res.tokens ELSE qtokens_restored
  /\ counts_rm' = IF pc = "removal" THEN res.counts ELSE counts_rm
  /\ counts_add' = IF pc = "restoral" THEN res.counts ELSE counts_add
  /\ i' = IF i + 1 = Len(res.tokens) THEN 0 ELSE i + 1
  /\ nrule' = IF i + 1 < Len(res.tokens) THEN nrule
              ELSE IF nrule = Len(rules) THEN 1 ELSE nrule + 1
  /\ wordform_rasm' = rasm(res.tokens[IF i + 1 = Len(res.tokens) THEN 1 ELSE i + 2].tok)
  /\ pc' = IF ~(i + 1 = Len(res.tokens) /\ nrule = Len(rules)) THEN pc
           ELSE IF mode # "eval" THEN "output"
           ELSE IF pc = "removal" THEN "restore" ELSE "traces"

\* variant of Advance: the loop of line 555 is over range(ntokens - 1), the
\* pass returns without its iterations at the last of two or more positions
Advance_short(res, last, return) ==
  /\ qtokens' = IF mode # "eval" THEN res.tokens ELSE qtokens
  /\ qtokens_detajweed' = IF mode = "eval" /\ pc = "removal"
                          THEN res.tokens ELSE qtokens_detajweed
  /\ qtokens_restored' = IF mode = "eval" /\ pc = "restoral"
                         THEN res.tokens ELSE qtokens_restored
  /\ counts_rm' = IF pc = "removal" THEN res.counts ELSE counts_rm
  /\ counts_add' = IF pc = "restoral" THEN res.counts ELSE counts_add
  /\ nrule' = IF last THEN 1 ELSE nrule + 1
  /\ i' = IF last THEN i + 1 ELSE i
  /\ wordform_rasm' = IF last /\ i + 2 < Len(res.tokens) THEN rasm(res.tokens[i+2].tok)
                      ELSE wordform_rasm
  /\ pc' = IF ~(last /\ i + 2 >= Len(res.tokens)) THEN pc
           ELSE IF mode # "eval" THEN "output"
           ELSE IF pc = "removal" THEN "restore" ELSE "traces"

\* variant of Advance: the lists of an evaluation are not copies, the passes
\* mutate the list of the tokens read
Advance_aliased(res, last, return) ==
  /\ qtokens' = res.tokens
  /\ qtokens_detajweed' = IF mode = "eval" THEN res.tokens ELSE qtokens_detajweed
  /\ qtokens_restored' = IF mode = "eval" /\ pc = "restoral"
                         THEN res.tokens ELSE qtokens_restored
  /\ counts_rm' = IF pc = "removal" THEN res.counts ELSE counts_rm
  /\ counts_add' = IF pc = "restoral" THEN res.counts ELSE counts_add
  /\ nrule' = IF last THEN 1 ELSE nrule + 1
  /\ i' = IF last THEN i + 1 ELSE i
  /\ wordform_rasm' = IF last /\ ~return THEN rasm(res.tokens[i+2].tok)
                      ELSE wordform_rasm
  /\ pc' = IF ~return THEN pc
           ELSE IF mode # "eval" THEN "output"
           ELSE IF pc = "removal" THEN "restore" ELSE "traces"

\* the loops of lines 555 and 559 advance after an iteration with result res;
\* after the last rule at the last position apply_rules returns
Advance(res, last, return) ==
  /\ qtokens' = IF mode # "eval" THEN res.tokens ELSE qtokens
  /\ qtokens_detajweed' = IF mode = "eval" /\ pc = "removal"
                          THEN res.tokens ELSE qtokens_detajweed
  /\ qtokens_restored' = IF mode = "eval" /\ pc = "restoral"
                         THEN res.tokens ELSE qtokens_restored
  /\ counts_rm' = IF pc = "removal" THEN res.counts ELSE counts_rm
  /\ counts_add' = IF pc = "restoral" THEN res.counts ELSE counts_add
  /\ nrule' = IF last THEN 1 ELSE nrule + 1
  /\ i' = IF last THEN i + 1 ELSE i
  /\ wordform_rasm' = IF last /\ ~return THEN rasm(res.tokens[i+2].tok)
                      ELSE wordform_rasm
  /\ pc' = IF ~return THEN pc
           ELSE IF mode # "eval" THEN "output"
           ELSE IF pc = "removal" THEN "restore" ELSE "traces"

\* the index of the token at position i has no row in the table, and the
\* rule reads it
missing(rule, ind) == reads_qmorf(rule, ind) /\ ind_key(ind) \notin DOMAIN QMORF

\* lines 555-629: the rule nrule is applied at position i
Apply ==
  /\ pc \in {"removal", "restoral"}
  /\ unpacks(rules[nrule])
  /\ ~missing(rules[nrule], tokens[i+1].ind)
  /\ Advance(apply_rule(rules[nrule], tokens, i, wordform_rasm, counts, mode = "eval"),
             nrule = Len(rules), nrule = Len(rules) /\ i + 1 = Len(tokens))
  /\ UNCHANGED <<ranges, tables, mode, infile, report, diff, swept, warnings, cnt, outfile, status, raised>>

\* variant of LookupError: the rule is skipped and the pass goes on
LookupError_skip ==
  /\ pc \in {"removal", "restoral"}
  /\ unpacks(rules[nrule])
  /\ missing(rules[nrule], tokens[i+1].ind)
  /\ Advance([tokens |-> tokens, counts |-> counts],
             nrule = Len(rules), nrule = Len(rules) /\ i + 1 = Len(tokens))
  /\ UNCHANGED <<ranges, tables, mode, infile, report, diff, swept, warnings, cnt, outfile, status, raised>>

\* variant of LookupError: the pass works on a copy of its list and of its
\* trace and gives them up when it stops, the caller has them as it passed them
LookupError_rollback ==
  /\ pc \in {"removal", "restoral"}
  /\ unpacks(rules[nrule])
  /\ missing(rules[nrule], tokens[i+1].ind)
  /\ raised' = "KeyError"
  /\ status' = "fail"
  /\ pc' = "done"
  /\ qtokens_detajweed' = IF mode = "eval" /\ pc = "removal" THEN qtokens ELSE qtokens_detajweed
  /\ qtokens_restored' = IF mode = "eval" /\ pc = "restoral" THEN qtokens_detajweed ELSE qtokens_restored
  /\ counts_rm' = IF pc = "removal" THEN [id_ \in DOMAIN counts_rm |-> <<>>] ELSE counts_rm
  /\ counts_add' = IF pc = "restoral" THEN [id_ \in DOMAIN counts_add |-> <<>>] ELSE counts_add
  /\ UNCHANGED <<ranges, tables, mode, infile, qtokens, i, nrule, wordform_rasm,
                 report, diff, swept, warnings, cnt, outfile>>

\* lines 571 and 578: the index of the token has no row in the table; the
\* KeyError is not caught and ends the run
LookupError ==
  /\ pc \in {"removal", "restoral"}
  /\ unpacks(rules[nrule])
  /\ missing(rules[nrule], tokens[i+1].ind)
  /\ raised' = "KeyError"
  /\ status' = "fail"
  /\ pc' = "done"
  /\ UNCHANGED <<ranges, tables, mode, infile, qtokens, qtokens_detajweed, qtokens_restored,
                 counts_rm, counts_add, i, nrule, wordform_rasm,
                 report, diff, swept, warnings, cnt, outfile>>

\* lines 559-560: the tuple of the rule has not the eight elements the loop
\* unpacks; the ValueError is not caught and ends the run
ValueError ==
  /\ pc \in {"removal", "restoral"}
  /\ ~unpacks(rules[nrule])
  /\ raised' = "ValueError"
  /\ status' = "fail"
  /\ pc' = "done"
  /\ UNCHANGED <<ranges, tables, mode, infile, qtokens, qtokens_detajweed, qtokens_restored,
                 counts_rm, counts_add, i, nrule, wordform_rasm,
                 report, diff, swept, warnings, cnt, outfile>>

\* lines 680-683 and 691-694: the tokens are written
Output ==
  /\ pc = "output"
  /\ outfile' = Join(Texts(qtokens))
  /\ status' = "ok"
  /\ pc' = "done"
  /\ UNCHANGED <<ranges, tables, mode, infile, qtokens, qtokens_detajweed, qtokens_restored,
                 counts_rm, counts_add, i, nrule, wordform_rasm,
                 report, diff, swept, warnings, cnt, raised>>

\* variant of Restore: the traces of the second pass go to the dict of the first
Restore_shared ==
  /\ pc = "restore"
  /\ counts_add' = counts_rm
  /\ qtokens_restored' = qtokens_detajweed
  /\ i' = 0
  /\ nrule' = 1
  /\ wordform_rasm' = rasm(qtokens_detajweed[1].tok)
  /\ pc' = "restoral"
  /\ UNCHANGED <<ranges, tables, mode, infile, qtokens, qtokens_detajweed, counts_rm,
                 report, diff, swept, warnings, cnt, outfile, status, raised>>

\* lines 708-711: the second pass of an evaluation is entered
Restore ==
  /\ pc = "restore"
  /\ counts_add' = [id_ \in {restore_rules[k].id_rule : k \in DOMAIN restore_rules} |-> <<>>]
  /\ qtokens_restored' = qtokens_detajweed
  /\ i' = 0
  /\ nrule' = 1
  /\ wordform_rasm' = rasm(qtokens_detajweed[1].tok)
  /\ pc' = "restoral"
  /\ UNCHANGED <<ranges, tables, mode, infile, qtokens, qtokens_detajweed, counts_rm,
                 report, diff, swept, warnings, cnt, outfile, status, raised>>

\* variant of Traces: the traces are compared entry by entry over the length
\* of the shorter one
Traces_zip ==
  /\ pc = "traces"
  /\ report' = [id_ \in DOMAIN counts_rm |->
                  LET traces_rm == counts_rm[id_]
                      traces_add == IF id_ \in DOMAIN counts_add THEN counts_add[id_] ELSE <<>>
                  IN [rm |-> Sum(traces_rm), add |-> Sum(traces_add),
                      match |-> \A k \in DOMAIN traces_rm \cap DOMAIN traces_add :
                                  traces_rm[k] = traces_add[k]]]
  /\ pc' = "texts"
  /\ UNCHANGED <<ranges, tables, mode, infile, qtokens, qtokens_detajweed, qtokens_restored,
                 counts_rm, counts_add, i, nrule, wordform_rasm,
                 diff, swept, warnings, cnt, outfile, status, raised>>

\* lines 719-725: one line per rule of the Removal table
Traces ==
  /\ pc = "traces"
  /\ report' = [id_ \in DOMAIN counts_rm |->
                  LET traces_rm == counts_rm[id_]
                      traces_add == IF id_ \in DOMAIN counts_add THEN counts_add[id_] ELSE <<>>
                  IN [rm |-> Sum(traces_rm), add |-> Sum(traces_add),
                      match |-> traces_rm = traces_add]]
  /\ pc' = "texts"
  /\ UNCHANGED <<ranges, tables, mode, infile, qtokens, qtokens_detajweed, qtokens_restored,
                 counts_rm, counts_add, i, nrule, wordform_rasm,
                 diff, swept, warnings, cnt, outfile, status, raised>>

\* lines 740-749: the texts are compared; on a difference one line per pair
\* of tokens is printed and the program exits with status 1
Compare ==
  /\ pc = "texts"
  /\ IF Join(Texts(qtokens)) = Join(Texts(qtokens_restored))
     THEN /\ pc' = "sweep"
          /\ UNCHANGED <<diff, status>>
     ELSE /\ diff' = [k \in DOMAIN qtokens |->
                        [line |-> IF qtokens[k].tok # qtokens_restored[k].tok THEN "diff" ELSE "oki",
                         word |-> qtokens[k].tok, word_rest |-> qtokens_restored[k].tok,
                         ind |-> qtokens[k].ind]]
          /\ status' = "fail"
          /\ pc' = "done"
  /\ UNCHANGED <<ranges, tables, mode, infile, qtokens, qtokens_detajweed, qtokens_restored,
                 counts_rm, counts_add, i, nrule, wordform_rasm,
                 report, swept, warnings, cnt, outfile, raised>>

\* line 765 for a token read with --infile: its index is a list, and the
\* test of membership in the set EXCEPTIONS_SUKUN raises TypeError
unhashable(tok) == infile /\ re_search(SUKUN_REGEX, tok)

\* variant of Warn: the checks are separate if statements, a token gets a
\* warning for every class it matches
Warn_each(code, tok, ind) ==
  /\ swept' = swept + 1
  /\ warnings' = warnings \o [k \in 1..Cardinality({c \in DOMAIN CODE : Class(c, tok, ind)}) |->
                                <<code, tok, ind>>]
  /\ cnt' = cnt + Cardinality({c \in DOMAIN CODE : Class(c, tok, ind)})
  /\ UNCHANGED <<raised, status, pc>>

\* lines 764-803: the next token of qtokens_detajweed is swept
Warn(code, tok, ind) ==
  /\ swept' = swept + 1
  /\ warnings' = IF code # "" THEN Append(warnings, <<code, tok, ind>>) ELSE warnings
  /\ cnt' = IF code # "" THEN cnt + 1 ELSE cnt
  /\ UNCHANGED <<raised, status, pc>>

Sweep ==
  /\ pc = "sweep"
  /\ swept < Len(qtokens_detajweed)
  /\ IF unhashable(qtokens_detajweed[swept+1].tok)
     THEN /\ raised' = "TypeError"
          /\ status' = "fail"
          /\ pc' = "done"
          /\ UNCHANGED <<swept, warnings, cnt>>
     ELSE Warn(warning(qtokens_detajweed[swept+1].tok, qtokens_detajweed[swept+1].ind),
               qtokens_detajweed[swept+1].tok, qtokens_detajweed[swept+1].ind)
  /\ UNCHANGED <<ranges, tables, mode, infile, qtokens, qtokens_detajweed, qtokens_restored,
                 counts_rm, counts_add, i, nrule, wordform_rasm,
                 report, diff, outfile>>

\* line 805: the total is printed and the program ends
Total ==
  /\ pc = "sweep"
  /\ swept = Len(qtokens_detajweed)
  /\ status' = "ok"
  /\ pc' = "done"
  /\ UNCHANGED <<ranges, tables, mode, infile, qtokens, qtokens_detajweed, qtokens_restored,
                 counts_rm, counts_add, i, nrule, wordform_rasm,
                 report, diff, swept, warnings, cnt, outfile, raised>>

Next ==
  \/ Start
  \/ Apply
  \/ LookupError
  \/ Output
  \/ Restore
  \/ Traces
  \/ Compare
  \/ Sweep
  \/ Total

Spec == Init /\ [][Next]_vars

\* the interpreter runs the statements of the program one after the other:
\* a statement that can be run is run
SpecFair == Init /\ [][Next]_vars /\ ([]<>(pc = "done") \/ []<><<Next>>_vars)

\* the program with edited tables: the loop of line 559 can fail to unpack
NextLoad == Next \/ ValueError

SpecLoad == InitLoad /\ [][NextLoad]_vars

(***************************************************************************)
(* A pass split in two ranges of positions.  Each range goes through its   *)
(* positions as the loop of line 555 does, with a cursor of its own: the   *)
(* position i, the number of the next rule and the skeleton taken at the   *)
(* position (line 557); the steps of the two ranges interleave.  Before    *)
(* the split pass, the positions of the first range and then those of the  *)
(* second are gone through by one loop, on a copy of the input.            *)
(***************************************************************************)
\* the positions lo, ..., hi
Positions(lo, hi) == [k \in 1..(hi - lo + 1) |-> lo + k - 1]

\* variant of Splits: the second range begins right after the first
Splits_adjacent(n) == {s \in (0..(n-1)) \X (0..(n-1)) : s[1] + 1 <= s[2]}

\* the splits of n positions in a range 0..s[1] and a range s[2]..n-1 with a
\* position between them
Splits(n) == {s \in (0..(n-1)) \X (0..(n-1)) : s[1] + 2 <= s[2]}

Cursor(lo, hi, toks) ==
  [lo |-> lo, hi |-> hi, i |-> lo, nrule |-> 1, wordform_rasm |-> rasm(toks[lo+1].tok)]

\* the one loop over the positions ps, on the tokens toks
Sequential(ps, toks) ==
  [tokens |-> toks, ps |-> ps, k |-> 1, nrule |-> 1, wordform_rasm |-> rasm(toks[ps[1]+1].tok)]

\* the token lists of the split passes: for Removal the runs of three words
\* or more of the corpus and the four words read; for Restoral the four
\* de-tajweed-ized words read
Lists(m) ==
  IF m = "rm"
  THEN {[k \in DOMAIN range |-> Token(preproc(range[k].tok), range[k].ind)] :
          range \in {r \in Ranges : Len(r) >= 3}} \cup {INFILE[9]}
  ELSE {INFILE[10]}

InitRanges ==
  /\ tables = "shipped"
  /\ mode \in {"rm", "add"}
  /\ infile = TRUE
  /\ qtokens \in Lists(mode)
  /\ \E s \in Splits(Len(qtokens)) :
       ranges = [input |-> qtokens,
                 sequential |-> Sequential(Positions(0, s[1]) \o Positions(s[2], Len(qtokens) - 1),
                                           qtokens),
                 cursor |-> <<Cursor(0, s[1], qtokens), Cursor(s[2], Len(qtokens) - 1, qtokens)>>]
  /\ qtokens_detajweed = <<>>
  /\ qtokens_restored = <<>>
  /\ counts_rm = <<>>
  /\ counts_add = <<>>
  /\ pc = IF mode = "rm" THEN "removal" ELSE "restoral"
  /\ i = 0
  /\ nrule = 1
  /\ wordform_rasm = <<>>
  /\ report = <<>>
  /\ diff = <<>>
  /\ swept = 0
  /\ warnings = <<>>
  /\ cnt = 0
  /\ outfile = <<>>
  /\ status = "running"
  /\ raised = ""

\* the loop over ps after the rule at its position, with the tokens toks
Stepped(q, toks, last) ==
  IF ~last THEN [q EXCEPT !.tokens = toks, !.nrule = @ + 1]
  ELSE [q EXCEPT !.tokens = toks, !.k = @ + 1, !.nrule = 1,
                 !.wordform_rasm = IF q.k < Len(q.ps) THEN rasm(toks[q.ps[q.k+1]+1].tok) ELSE <<>>]

\* lines 559-629 for the one loop: the next rule is applied at the position
\* of the loop
StepSequential ==
  /\ pc \in {"removal", "restoral"}
  /\ ranges.cursor # <<>>
  /\ ranges.sequential.k <= Len(ranges.sequential.ps)
  /\ ranges' = [ranges EXCEPT !.sequential =
                  Stepped(@, apply_rule(rules[@.nrule], @.tokens, @.ps[@.k], @.wordform_rasm,
                                        <<>>, FALSE).tokens,
                          @.nrule = Len(rules))]
  /\ UNCHANGED <<tables, mode, infile, qtokens, qtokens_detajweed, qtokens_restored,
                 counts_rm, counts_add, pc, i, nrule, wordform_rasm,
                 report, diff, swept, warnings, cnt, outfile, status, raised>>

\* the cursor after the rule at its position, on the tokens toks
Moved(c, toks, last) ==
  IF ~last THEN [c EXCEPT !.nrule = @ + 1]
  ELSE [c EXCEPT !.i = @ + 1, !.nrule = 1,
                 !.wordform_rasm = IF c.i < c.hi THEN rasm(toks[c.i+2].tok) ELSE <<>>]

\* lines 559-629 for the range r: the next rule of the range is applied at
\* the position of the range
StepRange(r) ==
  /\ pc \in {"removal", "restoral"}
  /\ ranges.cursor # <<>>
  /\ ranges.sequential.k > Len(ranges.sequential.ps)
  /\ ranges.cursor[r].i <= ranges.cursor[r].hi
  /\ qtokens' = apply_rule(rules[ranges.cursor[r].nrule], qtokens, ranges.cursor[r].i,
                           ranges.cursor[r].wordform_rasm, <<>>, FALSE).tokens
  /\ ranges' = [ranges EXCEPT !.cursor[r] =
                  Moved(@, qtokens', ranges.cursor[r].nrule = Len(rules))]
  /\ UNCHANGED <<tables, mode, infile, qtokens_detajweed, qtokens_restored,
                 counts_rm, counts_add, pc, i, nrule, wordform_rasm,
                 report, diff, swept, warnings, cnt, outfile, status, raised>>

NextRanges ==
  \/ StepSequential
  \/ StepRange(1)
  \/ StepRange(2)

SpecRanges == InitRanges /\ [][NextRanges]_vars

(***************************************************************************)
(* Properties.                                                             *)
(***************************************************************************)
\* the number of the entry of a table with a given id
RuleNo(table, id_) == CHOOSE k \in DOMAIN table : table[k].id_rule = id_

Ids(table) == {table[k].id_rule : k \in DOMAIN table}

\* both passes of an evaluation have returned
Restored == mode = "eval" /\ raised = "" /\ pc \in {"traces", "texts", "sweep", "done"}

\* a pass is running
InPass == pc \in {"removal", "restoral"}

\* a step leaves the texts and the traces as they are
Untouched ==
  /\ qtokens' = qtokens
  /\ qtokens_detajweed' = qtokens_detajweed
  /\ qtokens_restored' = qtokens_restored
  /\ counts_rm' = counts_rm
  /\ counts_add' = counts_add

Touched(traces) == {traces[k][1] : k \in DOMAIN traces}

IsText(p) == \A k \in DOMAIN p : p[k].k = "in" /\ Cardinality(p[k].s) = 1

TextOf(p) == [k \in DOMAIN p |-> CHOOSE c \in p[k].s : TRUE]

\* the entry ad is the structural inverse of the entry rm
Inverse(rm, ad) ==
  /\ (rm.tok_pre # None) <=> (ad.tok_pre # None)
  /\ (rm.pat # None) <=> (ad.pat # None)
  /\ (rm.pat # None /\ ad.pat # None /\ IsText(rm.pat) /\ IsText(ad.pat))
       => (TextOf(ad.pat) = rm.repl /\ ad.repl = TextOf(rm.pat))
  /\ rm.FILTER_POS = ad.FILTER_POS
  /\ rm.except_ind = ad.except_ind
  /\ rm.force_ind = ad.force_ind
  /\ rm.restrict_ind = ad.restrict_ind

\* C2: for every rule id the Restoral entry is the exact structural inverse
\* of the Removal entry with the same id: the same forms are present, pattern
\* and replacement are swapped, and the POS filter, ExceptIndexes,
\* ForceIndexes and RestrictIndexes are the same in both directions (stated
\* of the rule a pass is at, which is every rule of either table in turn)
C2_StructuralInverse ==
  (InPass /\ rules[nrule].id_rule \in Ids(REMOVE_SANDHI_RULES) \cap Ids(RESTORE_SANDHI_RULES))
    => Inverse(REMOVE_SANDHI_RULES[RuleNo(REMOVE_SANDHI_RULES, rules[nrule].id_rule)],
               RESTORE_SANDHI_RULES[RuleNo(RESTORE_SANDHI_RULES, rules[nrule].id_rule)])

\* the entries of a table with a given id
Entries(table, id_) == {k \in DOMAIN table : table[k].id_rule = id_}

\* C3: every rule id occurs exactly once in the Removal table and exactly
\* once in the Restoral table, and the two tables hold the same set of ids
\* (stated of the rule a pass is at, which is every rule of either table in
\* turn)
C3_OneToOne ==
  InPass =>
    /\ Cardinality(Entries(REMOVE_SANDHI_RULES, rules[nrule].id_rule)) = 1
    /\ Cardinality(Entries(RESTORE_SANDHI_RULES, rules[nrule].id_rule)) = 1

\* the Restoral pass of an evaluation is at its last rule: the dicts of traces
\* have one key for every entry of a table, and the same keys
C3_Witness ==
  /\ pc = "restoral" /\ nrule = Len(RESTORE_SANDHI_RULES)
  /\ Cardinality(DOMAIN counts_rm) = Len(REMOVE_SANDHI_RULES)
  /\ DOMAIN counts_add = DOMAIN counts_rm

C5_FailsIffTextsDiffer ==
  (mode = "eval" /\ pc = "done") =>
    /\ status = "fail" <=> Join(Texts(qtokens)) # Join(Texts(qtokens_restored))
    /\ status = "fail" => Len(diff) = Len(qtokens)

\* C6: during a pass, a rule with a non-empty RestrictIndexes, at a position
\* whose index is not in that set, changes no text (of token i or of token
\* i+1) and appends no trace entry
C6_RestrictIndexes ==
  [][(InPass /\ rules[nrule].restrict_ind # {}
             /\ tokens[i+1].ind \notin rules[nrule].restrict_ind) => Untouched]_vars

\* the Restoral pass has just gone past min-y-4 at a token outside of its
\* restriction set: the pattern of the rule matches the token, and the token
\* has not got the mark
C6_Witness ==
  /\ pc = "restoral"
  /\ nrule = RuleNo(RESTORE_SANDHI_RULES, "min-y-4") + 1
  /\ tokens[i+1].ind \notin RESTRICT_INDEXES_MIN_Y_4
  /\ re_search(RESTORE_SANDHI_RULES[nrule - 1].pat, tokens[i+1].tok)
  /\ ~Has(tokens[i+1].tok, {\h06E6})

\* C7: a rule does not fire, in its boundary form or in its intra form, at a
\* position whose index is in its ExceptIndexes, and does not change the
\* token there; rule HU lists (39,7,13) in both tables and never changes the
\* token at that index
C7_ExceptIndexes ==
  [][/\ (InPass /\ tokens[i+1].ind \in rules[nrule].except_ind) => Untouched
     /\ (InPass /\ rules[nrule].id_rule = "HU" /\ tokens[i+1].ind = <<39,7,13>>) => Untouched]_vars

\* the Restoral pass has just gone past HU at Q.39:7:13, followed by the next
\* word: the boundary form of the rule matches there, and the token is as it was
C7_Witness ==
  /\ mode = "eval" /\ pc = "restoral"
  /\ nrule = RuleNo(RESTORE_SANDHI_RULES, "HU") + 1
  /\ tokens[i+1].ind = <<39,7,13>>
  /\ at_boundary(RESTORE_SANDHI_RULES[nrule - 1], tokens, i)
  /\ tokens[i+1].tok = qtokens_detajweed[i+1].tok

\* C8: under the Removal rule M1, when token i ends in mim without sukun and
\* token i+1 begins with ba, after the rule token i ends in mim and sukun and
\* the text of token i+1 is as it was
C8_M1 ==
  [][(/\ pc = "removal" /\ rules[nrule].id_rule = "M1"
      /\ i + 1 < Len(tokens)
      /\ Last1(tokens[i+1].tok) = <<\h0645>>
      /\ Len(tokens[i+2].tok) > 0 /\ Head(tokens[i+2].tok) = \h0628)
     => (/\ pc' = "removal"
         /\ Last2(tokens'[i+1].tok) = <<\h0645, \h06E1>>
         /\ tokens'[i+2].tok = tokens[i+2].tok)]_vars

\* the Removal pass of an evaluation has just applied M1 to the words of
\* Q.23:59:2-3
C8_Witness ==
  /\ mode = "eval" /\ pc = "removal"
  /\ nrule = RuleNo(REMOVE_SANDHI_RULES, "M1") + 1
  /\ i = 0 /\ Len(tokens) = 2
  /\ tokens[1].ind = <<23,59,2>>
  /\ Last1(qtokens[1].tok) = <<\h0645>>
  /\ Head(qtokens[2].tok) = \h0628
  /\ tokens[1].tok = qtokens[1].tok \o <<\h06E1>>
  /\ tokens[2].tok = qtokens[2].tok

\* the hapax marks U+06EA, U+06EB and U+06EC
HapaxMarks == {\h06EA, \h06EB, \h06EC}

\* C9: a token with one of the hapax marks, after the full Removal pass and
\* the full Restoral pass, has exactly its original characters
C9_Hapax ==
  Restored =>
    \A k \in DOMAIN qtokens :
      Has(qtokens[k].tok, HapaxMarks) => qtokens_restored[k].tok = qtokens[k].tok

\* an evaluation has ended on a token with U+06EC: Removal took the mark
\* away and Restoral wrote it again
C9_Witness ==
  /\ Restored /\ pc = "done"
  /\ \E k \in DOMAIN qtokens :
       /\ Has(qtokens[k].tok, {\h06EC})
       /\ ~Has(qtokens_detajweed[k].tok, HapaxMarks)
       /\ qtokens_restored[k].tok = qtokens[k].tok

\* rule min-y-4 changes a text or a trace only at an index of its restriction set
FiresInside ==
  (InPass /\ rules[nrule].id_rule = "min-y-4" /\ ~Untouched)
    => tokens[i+1].ind \in RESTRICT_INDEXES_MIN_Y_4

\* C10, as stated: rule min-y-4, in Removal and in Restoral, fires only at
\* indices of its restriction set, and that set has exactly 15 indices
C10_Stated ==
  [][FiresInside /\ Cardinality(RESTRICT_INDEXES_MIN_Y_4) = 15]_vars

\* C10: rule min-y-4, in Removal and in Restoral, fires only at indices of
\* its restriction set, and that set has exactly 16 indices
C10_MinY4 ==
  [][FiresInside /\ Cardinality(RESTRICT_INDEXES_MIN_Y_4) = 16]_vars

\* the Removal pass of an evaluation has just applied min-y-4 at Q.25:69:7
\* and taken the mark from the token
C10_Witness ==
  /\ mode = "eval" /\ pc = "removal"
  /\ nrule = RuleNo(REMOVE_SANDHI_RULES, "min-y-4") + 1
  /\ tokens[i+1].ind = <<25,69,7>>
  /\ Has(qtokens[i+1].tok, {\h06E6})
  /\ ~Has(tokens[i+1].tok, {\h06E6})

\* an index of the token list has no row in the morphological table
Absent(toks) == \E k \in DOMAIN toks : ind_key(toks[k].ind) \notin DOMAIN QMORF

\* a pass has returned to the program
Returned == pc \in {"output", "restore", "traces", "texts", "sweep"} \/ (pc = "done" /\ raised # "KeyError")

\* C11: a pass of apply_rules, with the Removal or with the Restoral table,
\* over tokens of which one has an index without a row in the morphological
\* table never returns: the run ends with the uncaught lookup error
C11_LookupFatal ==
  /\ Absent(qtokens) => ~Returned
  /\ (Absent(qtokens) /\ pc = "done") => (raised = "KeyError" /\ status = "fail" /\ outfile = <<>>)

\* the Restoral pass has changed the first token and has ended with the
\* lookup error at the second, whose index has no row
C11_Witness ==
  /\ mode = "add" /\ pc = "done" /\ raised = "KeyError"
  /\ i = 1 /\ Len(qtokens) = 2
  /\ ind_key(qtokens[1].ind) \in DOMAIN QMORF
  /\ ind_key(qtokens[2].ind) \notin DOMAIN QMORF
  /\ qtokens[1].tok # INFILE[5][1].tok

\* every tuple of a table unpacks, and the tables have the same ids
WellFormed(table) == \A k \in DOMAIN table : unpacks(table[k])

Paired == Ids(remove_rules) = Ids(restore_rules)

\* C12: when a tuple of a rule table has the wrong number of elements, or an
\* id of one table has no entry in the other, the run is rejected when the
\* tables are loaded: no rule is applied at any position, no text of a copy
\* is changed, nothing is reported or written, and the run does not end well
C12_FailFast ==
  (~WellFormed(remove_rules) \/ ~WellFormed(restore_rules) \/ ~Paired) =>
    /\ i = 0 /\ nrule = 1
    /\ qtokens_detajweed # <<>> => Texts(qtokens_detajweed) = Texts(qtokens)
    /\ report = <<>> /\ diff = <<>> /\ warnings = <<>> /\ outfile = <<>>
    /\ status # "ok"

\* the rule the pass is at can be applied at position i
Applies == InPass /\ unpacks(rules[nrule]) /\ ~missing(rules[nrule], tokens[i+1].ind)

\* sinks for the rule rule at index ind: none (counts=None), an empty dict, a
\* dict without the id, a dict with traces under the id, the dict of the run
Sinks(rule, ind) ==
  { [has_counts |-> FALSE, counts |-> <<>>],
    [has_counts |-> TRUE, counts |-> <<>>],
    [has_counts |-> TRUE, counts |-> ("M0" :> <<>>)],
    [has_counts |-> TRUE, counts |-> (rule.id_rule :> <<<<ind, 2, FALSE>>, <<<<1,1,1>>, 1, TRUE>>>>)],
    [has_counts |-> TRUE, counts |-> counts] }

\* the texts after the rule with a given sink
After(sink) ==
  Texts(apply_rule(rules[nrule], tokens, i, wordform_rasm, sink.counts, sink.has_counts).tokens)

\* C13: the texts a rule leaves at a position are the same whether
\* apply_rules gets a sink for the traces or not, and whatever the sink
\* holds; so are, rule after rule, the texts at the end of the pass
C13_SinkIgnored ==
  Applies =>
    \A s \in Sinks(rules[nrule], tokens[i+1].ind) :
      After(s) = After([has_counts |-> FALSE, counts |-> <<>>])

\* the pass of --rm, which has no sink, is at M1 at the words of Q.23:59:2-3:
\* the rule changes the first text, and with a sink that holds traces of M1
\* it appends a trace and changes the text in the same way
C13_Witness ==
  /\ mode = "rm" /\ pc = "removal" /\ rules[nrule].id_rule = "M1"
  /\ i = 0 /\ tokens[1].ind = <<23,59,2>> /\ Len(tokens) = 2
  /\ After([has_counts |-> FALSE, counts |-> <<>>]) # Texts(tokens)
  /\ Len(apply_rule(rules[nrule], tokens, i, wordform_rasm,
                    ("M1" :> <<<<tokens[1].ind, 2, FALSE>>>>), TRUE).counts["M1"]) = 2

\* neither form of the rule the pass is at matches at position i
Nothing ==
  /\ InPass /\ unpacks(rules[nrule])
  /\ ~at_boundary(rules[nrule], tokens, i)
  /\ rules[nrule].pat = None \/ ~re_search(rules[nrule].pat, tokens[i+1].tok)

\* C14, as stated: when neither form of a rule matches at position i, the
\* step leaves every text and every trace as it is and raises no error
C14_Stated ==
  [][Nothing => (Untouched /\ raised' = "")]_vars

\* C14: when neither form of a rule matches at position i and the index of
\* token i has a row in the morphological table, the step leaves every text
\* and every trace as it is and raises no error
C14_SilentNoOp ==
  [][(Nothing /\ ind_key(tokens[i+1].ind) \in DOMAIN QMORF) => (Untouched /\ raised' = "")]_vars

\* the Removal pass of an evaluation has gone past SHMS at the second word
\* of Q.23:59:2-3, a noun the pattern of the rule does not match: the text is
\* the one read, the rule has no trace, no error is raised
C14_Witness ==
  /\ mode = "eval" /\ pc = "removal" /\ i = 1
  /\ nrule = RuleNo(REMOVE_SANDHI_RULES, "SHMS") + 1
  /\ tokens[2].ind = <<23,59,3>>
  /\ "N" \in Range(QMORF["23,59,3"].pos)
  /\ ~re_search(REMOVE_SANDHI_RULES[nrule - 1].pat, tokens[2].tok)
  /\ tokens[2].tok = qtokens[2].tok
  /\ counts_rm["SHMS"] = <<>>
  /\ raised = ""

\* the indices of a token list, in order
Inds(toks) == [k \in DOMAIN toks |-> toks[k].ind]

\* C15: no step of a pass adds, removes or reorders tokens or changes an
\* index: the list a pass mutates keeps its length and its indices in their
\* order at every step, and the copies of an evaluation have the indices of
\* the tokens read; only texts change
C15_IndicesKept ==
  [][/\ Inds(qtokens') = Inds(qtokens)
     /\ qtokens_detajweed' # <<>> => Inds(qtokens_detajweed') = Inds(qtokens)
     /\ qtokens_restored' # <<>> => Inds(qtokens_restored') = Inds(qtokens)]_vars

\* the Removal pass of an evaluation of two tokens has returned: a text has
\* changed, the indices are those read
C15_Witness ==
  /\ mode = "eval" /\ pc = "restore" /\ Len(qtokens) = 2
  /\ Texts(qtokens_detajweed) # Texts(qtokens)
  /\ Inds(qtokens_detajweed) = Inds(qtokens)
  /\ qtokens[1].ind # qtokens[2].ind

\* the texts a pass of an evaluation started from
Input == IF pc = "removal" THEN qtokens ELSE qtokens_detajweed

\* the text of token i after the boundary form of a rule, and after the intra
\* form applied to a text b
BoundaryOf(rule, toks, k) ==
  IF at_boundary(rule, toks, k)
  THEN re_sub(rule.tok_pre \o <<Eol>>, rule.repl_pre, toks[k+1].tok)
  ELSE toks[k+1].tok

IntraOf(rule, b) == IF rule.pat # None THEN re_sub(rule.pat, rule.repl, b) ELSE b

\* C16: a pass goes through the pairs (position, rule) in lexicographic
\* order, all rules in their declared order at position i before any rule at
\* position i+1, and returns after the last rule at the last position; when
\* it comes to position i the tokens above i still have the texts the pass
\* started from (token i has the edits of the positions below, its own
\* look-ahead edits included), and while it is at position i token i+1
\* changes only by the replace-post of a boundary form that matches; the
\* intra form of a rule works on the text its boundary form has left
C16_Order ==
  [][InPass =>
       /\ pc' = pc => IF nrule < Len(rules) THEN i' = i /\ nrule' = nrule + 1
                                            ELSE i' = i + 1 /\ nrule' = 1
       /\ pc' # pc => (nrule = Len(rules) /\ i + 1 = Len(tokens)) \/ raised' # ""
       /\ (mode = "eval" /\ nrule = 1) =>
            \A k \in (i + 2)..Len(tokens) : tokens[k].tok = Input[k].tok
       /\ (pc' = pc /\ i + 1 < Len(tokens) /\ tokens'[i+2].tok # tokens[i+2].tok) =>
            (at_boundary(rules[nrule], tokens, i) /\ rules[nrule].repl_post # None)
       /\ (pc' = pc /\ ~skipped(rules[nrule], tokens[i+1].ind, wordform_rasm)) =>
            tokens'[i+1].tok = IntraOf(rules[nrule], BoundaryOf(rules[nrule], tokens, i))]_vars

\* the Removal pass of an evaluation comes to the second position, after all
\* the rules at the first: both texts have been edited from the first
\* position, the second by a look-ahead replacement
C16_Witness ==
  /\ mode = "eval" /\ pc = "removal" /\ i = 1 /\ nrule = 1
  /\ tokens[1].tok # qtokens[1].tok
  /\ tokens[2].tok # qtokens[2].tok

\* the step of a rule at position k, from the tokens before to the tokens
\* after: the next token changes, or token k changes under a rule without
\* intra form, only if k is not the last position, tok_pre matches the end of
\* token k and tok_post the start of the next token; then the match at the
\* end of token k is replaced by repl_pre, and the match at the start of the
\* next token by repl_post if the rule has one; without a repl_post the next
\* token is as before
BoundaryStep(rule, before, after, k) ==
  /\ (\/ rule.pat = None /\ after[k+1].tok # before[k+1].tok
      \/ k + 1 < Len(before) /\ after[k+2].tok # before[k+2].tok)
       => /\ rule.tok_pre # None
          /\ k + 1 < Len(before)
          /\ re_search(rule.tok_pre \o <<Eol>>, before[k+1].tok)
          /\ re_search(<<Bol>> \o rule.tok_post, before[k+2].tok)
  /\ at_boundary(rule, before, k)
       => /\ after[k+1].tok =
               IntraOf(rule, re_sub(rule.tok_pre \o <<Eol>>, rule.repl_pre, before[k+1].tok))
          /\ rule.repl_post # None
               => after[k+2].tok = re_sub(<<Bol>> \o rule.tok_post, rule.repl_post, before[k+2].tok)
  /\ (rule.repl_post = None /\ k + 1 < Len(before)) => after[k+2].tok = before[k+2].tok

\* C17: the boundary form of a rule fires at position i only if i is not the
\* last position, the pre-anchor matches the end of token i and the
\* post-anchor the start of token i+1; it replaces the matched tail of token
\* i by replace-pre, and changes token i+1 only if the rule has a
\* replace-post
C17_Boundary ==
  [][(InPass /\ pc' = pc /\ ~skipped(rules[nrule], tokens[i+1].ind, wordform_rasm))
       => BoundaryStep(rules[nrule], tokens, tokens', i)]_vars

\* the Removal pass of an evaluation has gone past HU, a rule without
\* replace-post, at the first of two words (Q.2:112:8-9): the boundary form
\* has fired, the first text has changed, the trace is that of a boundary,
\* the second text is as it was
C17_Witness ==
  /\ mode = "eval" /\ pc = "removal" /\ i = 0 /\ Len(tokens) = 2
  /\ nrule = RuleNo(REMOVE_SANDHI_RULES, "HU") + 1
  /\ REMOVE_SANDHI_RULES[nrule - 1].repl_post = None
  /\ counts_rm["HU"] = <<<<tokens[1].ind, 1, TRUE>>>>
  /\ tokens[1].tok # qtokens[1].tok
  /\ tokens[2].tok = qtokens[2].tok

\* the list of the running pass after a step
tokens_after ==
  IF mode # "eval" THEN qtokens'
  ELSE IF pc = "removal" THEN qtokens_detajweed' ELSE qtokens_restored'

\* C18: a step of a pass at position i changes no text but those of tokens i
\* and i+1, and the position never goes back: a token below i is not changed
\* again in the pass; the tokens above i+1 have the texts the pass started
\* from
C18_Frame ==
  [][InPass =>
       /\ \A k \in DOMAIN tokens : k \notin {i + 1, i + 2} => tokens_after[k].tok = tokens[k].tok
       /\ pc' = pc => i' >= i
       /\ mode = "eval" => \A k \in (i + 3)..Len(tokens) : tokens[k].tok = Input[k].tok]_vars

\* the Removal pass of an evaluation of three tokens is at the last rule at
\* the first position: the first text has been changed, the third is the one
\* read
C18_Witness ==
  /\ mode = "eval" /\ pc = "removal" /\ Len(tokens) = 3
  /\ i = 0 /\ nrule = Len(REMOVE_SANDHI_RULES)
  /\ tokens[1].tok # qtokens[1].tok
  /\ tokens[3].tok = qtokens[3].tok

\* the letters ha and ya of lines 578 and 583
Ha == \h0647

Ya == \h064A

\* the final -h of the token at ind belongs to the word, not to an enclitic:
\* the skeleton does not end in a doubled ha, and a root ends in ha or in ha
\* and ya
RootInH(ind, skeleton) ==
  /\ Last2(skeleton) # <<Ha, Ha>>
  /\ \E k \in DOMAIN QMORF[ind_key(ind)].roots :
       \/ Last1(QMORF[ind_key(ind)].roots[k]) = <<Ha>>
       \/ Last2(QMORF[ind_key(ind)].roots[k]) = <<Ha, Ya>>

\* the rule with ind in its ForceIndexes
Forced(rule, ind) == [rule EXCEPT !.force_ind = {ind}]

\* C19: HU and HI are skipped at position i, in both forms, when index(i)
\* is not in their ForceIndexes, the skeleton of the token does not end in a
\* doubled ha and a root of the token ends in ha or in ha and ya; no other
\* rule is skipped for that reason; with index(i) in ForceIndexes the rule is
\* applied where its pattern matches
C19_Enclitic ==
  [][(InPass /\ ind_key(tokens[i+1].ind) \in DOMAIN QMORF /\ RootInH(tokens[i+1].ind, wordform_rasm)) =>
       /\ (rules[nrule].id_rule \in {"HU", "HI"} /\ tokens[i+1].ind \notin rules[nrule].force_ind)
            => Untouched
       /\ (/\ rules[nrule].id_rule \notin {"HU", "HI"}
           /\ ~restricted(rules[nrule], tokens[i+1].ind)
           /\ ~excepted(rules[nrule], tokens[i+1].ind)
           /\ ~filtered(rules[nrule], tokens[i+1].ind))
            => tokens_after[i+1].tok = IntraOf(rules[nrule], BoundaryOf(rules[nrule], tokens, i))
       /\ (rules[nrule].id_rule \in {"HU", "HI"} /\ ~excepted(rules[nrule], tokens[i+1].ind))
            => apply_rule(Forced(rules[nrule], tokens[i+1].ind), tokens, i, wordform_rasm, <<>>, FALSE).tokens[i+1].tok
                 = BoundaryOf(rules[nrule], tokens, i)]_vars

\* the Restoral pass has gone past HI at Q.19:46:9, a verb of a root in ha and
\* ya, before the next word: the boundary form of HI matches, the token has
\* not got the mark of the enclitic; with the index in ForceIndexes it gets it
C19_Witness ==
  /\ pc = "restoral" /\ i = 0 /\ Len(tokens) = 2
  /\ nrule = RuleNo(RESTORE_SANDHI_RULES, "HI") + 1
  /\ tokens[1].ind = <<19,46,9>>
  /\ RootInH(<<19,46,9>>, wordform_rasm)
  /\ at_boundary(RESTORE_SANDHI_RULES[nrule - 1], tokens, 0)
  /\ ~Has(tokens[1].tok, {\h06E6})
  /\ Has(apply_rule(Forced(RESTORE_SANDHI_RULES[nrule - 1], <<19,46,9>>), tokens, 0,
                    wordform_rasm, <<>>, FALSE).tokens[1].tok, {\h06E6})

\* the POS of the row of an index
Pos(ind) == Range(QMORF[ind_key(ind)].pos)

\* C20: a rule with a POS filter changes a text or appends a trace at
\* position i only if the filter is in the POS of the row of index(i); at an
\* index whose row has not the POS, neither form is applied and nothing is
\* recorded
C20_PosFilter ==
  [][(/\ InPass /\ rules[nrule].FILTER_POS # NoPOS
      /\ ind_key(tokens[i+1].ind) \in DOMAIN QMORF) =>
       /\ rules[nrule].FILTER_POS \notin Pos(tokens[i+1].ind) => Untouched
       /\ ~Untouched => rules[nrule].FILTER_POS \in Pos(tokens[i+1].ind)]_vars

\* the Restoral pass of an evaluation has gone past SHMS at the verb of
\* Q.3:13:7: the pattern of the rule matches the token, the text is the one
\* read and the rule has no trace
C20_Witness ==
  /\ mode = "eval" /\ pc = "restoral" /\ i = 0
  /\ nrule = RuleNo(RESTORE_SANDHI_RULES, "SHMS") + 1
  /\ tokens[1].ind = <<3,13,7>>
  /\ "N" \notin Pos(<<3,13,7>>)
  /\ re_search(RESTORE_SANDHI_RULES[nrule - 1].pat, tokens[1].tok)
  /\ tokens[1].tok = qtokens[1].tok
  /\ counts_add["SHMS"] = <<>>

\* the multiset of the entries of a trace
BagOf(traces) ==
  [e \in Range(traces) |-> Cardinality({k \in DOMAIN traces : traces[k] = e})]

\* the Restoral trace paired with a rule id (line 720)
PairedTrace(id_) == IF id_ \in DOMAIN counts_add THEN counts_add[id_] ELSE <<>>

\* C21: for each rule id the verifier reports OK exactly when the Removal
\* trace and the paired Restoral trace are equal as multisets of (index,
\* match-count, is-boundary) triples, and FAIL otherwise
C21_ReportMultiset ==
  report # <<>> =>
    /\ DOMAIN report = Ids(remove_rules)
    /\ \A id_ \in DOMAIN report :
         report[id_].match <=> BagOf(counts_rm[id_]) = BagOf(PairedTrace(id_))

\* an evaluation has reported: a rule with entries in both traces is
\* reported OK, and a rule whose traces differ is reported FAIL
C21_Witness ==
  /\ mode = "eval" /\ report # <<>>
  /\ \E id_ \in DOMAIN report :
       /\ report[id_].match /\ counts_rm[id_] # <<>>
       /\ BagOf(counts_rm[id_]) = BagOf(counts_add[id_])
  /\ \E id_ \in DOMAIN report :
       /\ ~report[id_].match
       /\ BagOf(counts_rm[id_]) # BagOf(counts_add[id_])

\* C22: an evaluation leaves the tokens read as they are in both passes, and
\* leaves the de-tajweed-ized tokens as they are once the Removal pass has
\* returned: the comparison of the texts reads the tokens as read, and the
\* sweep the tokens as Removal left them
C22_CopiesKept ==
  [][mode = "eval" =>
       /\ qtokens' = qtokens
       /\ pc \notin {"start", "removal"} => qtokens_detajweed' = qtokens_detajweed
       /\ pc = "restore" => qtokens_restored' = qtokens_detajweed]_vars

\* an evaluation has ended after the sweep: Removal had changed a text of its
\* copy and Restoral a text of its own; the tokens read are those restored,
\* and the tokens swept are not those restored
C22_Witness ==
  /\ mode = "eval" /\ pc = "done" /\ status = "ok"
  /\ swept = Len(qtokens_detajweed) /\ swept > 0
  /\ Texts(qtokens_detajweed) # Texts(qtokens)
  /\ Texts(qtokens_detajweed) # Texts(qtokens_restored)
  /\ Texts(qtokens_restored) = Texts(qtokens)

\* C23: every class of residual traces the sweep checks prints a code of its
\* own, which no other class prints: the code of a warning tells the class
\* of its token; and a sweep that ends reports the total of the warnings
C23_DistinctCodes ==
  /\ \A k \in DOMAIN warnings :
       /\ warnings[k][1] = CODE[branch(warnings[k][2], warnings[k][3])]
       /\ \A c \in DOMAIN CODE :
            CODE[c] = warnings[k][1] => c = branch(warnings[k][2], warnings[k][3])
  /\ (mode = "eval" /\ pc = "done" /\ status = "ok") =>
       (swept = Len(qtokens_detajweed) /\ cnt = Len(warnings))

\* the classes of residual traces a token shows, and the first of them in
\* the order of the checks
Classes(t) == {c \in DOMAIN CODE : Class(c, t.tok, t.ind)}

First(S) == CHOOSE c \in S : \A d \in S : c <= d

Offends(t) == Classes(t) # {}

\* the tokens swept so far that show a residual trace
Offenders == SelectSeq(SubSeq(qtokens_detajweed, 1, swept), Offends)

\* C24: the sweep reports one warning for each token that shows a residual
\* trace, with the code of the first class the token matches in the order of
\* the checks, and none for the other tokens: the total is the number of the
\* offending tokens, at most the number of tokens, whatever the number of
\* classes a token matches
C24_OnePerToken ==
  /\ cnt = Len(warnings)
  /\ cnt <= swept /\ swept <= Len(qtokens_detajweed)
  /\ Len(warnings) = Len(Offenders)
  /\ \A k \in DOMAIN warnings :
       warnings[k] = <<CODE[First(Classes(Offenders[k]))], Offenders[k].tok, Offenders[k].ind>>

\* a sweep has ended with one warning for a token that matches two classes
C24_Witness ==
  /\ pc = "done" /\ status = "ok" /\ swept = Len(qtokens_detajweed)
  /\ \E k \in DOMAIN qtokens_detajweed : Cardinality(Classes(qtokens_detajweed[k])) >= 2
  /\ cnt <= Len(qtokens_detajweed)

\* the two ranges of a split pass are through
Finished ==
  /\ ranges.cursor # <<>>
  /\ \A r \in DOMAIN ranges.cursor : ranges.cursor[r].i > ranges.cursor[r].hi

\* C25: when the rules of a table are applied at the positions of two ranges
\* with a position between them, the texts at the end are, however the steps
\* of the two ranges interleave, and whichever range is done first, those
\* that one loop leaves which goes through the first range and then through
\* the second
C25_RangesIndependent ==
  Finished => Texts(qtokens) = Texts(ranges.sequential.tokens)

\* the Restoral rules have been applied at position 0 and at positions 2 and
\* 3 of the four de-tajweed-ized tokens;
\* the look-ahead of position 0 has written the shadda on the token at
\* position 1, which belongs to no range
C25_Witness ==
  /\ Finished /\ pc = "restoral" /\ Len(qtokens) = 4
  /\ ranges.cursor[1].hi = 0 /\ ranges.cursor[2].lo = 2
  /\ qtokens[1].tok # ranges.input[1].tok
  /\ qtokens[2].tok # ranges.input[2].tok
  /\ qtokens[3].tok # ranges.input[3].tok

\* an index of the token list has a row in the morphological table
HasRow(ind) == ind_key(ind) \in DOMAIN QMORF

\* C26: a rule is applied, where its pattern matches, at an index of its
\* ForceIndexes, whatever its ExceptIndexes and its EXCLUDE_LEMAS hold: at an
\* index that is in the force set and in the exclude set the step of the rule
\* leaves the text of its boundary form and of its intra form
C26_ForceOverrides ==
  [][(/\ InPass /\ unpacks(rules[nrule]) /\ HasRow(tokens[i+1].ind)
      /\ tokens[i+1].ind \in rules[nrule].force_ind
      /\ ~restricted(rules[nrule], tokens[i+1].ind)
      /\ ~filtered(rules[nrule], tokens[i+1].ind))
       => /\ pc' = pc \/ raised' = ""
          /\ tokens_after[i+1].tok = IntraOf(rules[nrule], BoundaryOf(rules[nrule], tokens, i))]_vars

\* C27: a rule is not applied to a token one of whose lemmas is in the
\* EXCLUDE_LEMAS of the rule: the step of the rule at such a token changes no
\* text and appends nothing to a trace
C27_ExcludeLemas ==
  [][(/\ InPass /\ unpacks(rules[nrule])
      /\ lemas(tokens[i+1].ind) \cap rules[nrule].except_lemas # {})
     => Untouched]_vars

\* the step of the running pass is the iteration of rule nrule at position i
Iteration ==
  /\ ~missing(rules[nrule], tokens[i+1].ind)
  /\ raised' = ""
  /\ tokens_after = apply_rule(rules[nrule], tokens, i, wordform_rasm, counts, mode = "eval").tokens
  /\ IF nrule < Len(rules) THEN pc' = pc /\ i' = i /\ nrule' = nrule + 1
     ELSE IF i + 1 < Len(tokens) THEN pc' = pc /\ i' = i + 1 /\ nrule' = 1
     ELSE ~InPass' /\ status' = "running"

\* the step of the running pass is the lookup error that ends the run
Stops ==
  /\ missing(rules[nrule], tokens[i+1].ind)
  /\ raised' = "KeyError" /\ pc' = "done" /\ status' = "fail"

\* C28: every pass over a token sequence terminates, and in one of two ways:
\* it has applied every rule at every position, from the first rule at
\* position 0 to the last rule at position N-1, one after the other, and
\* returns, or it stops with a lookup error; it never returns having skipped
\* a rule or a position
C28_Terminates ==
  /\ [][/\ (InPass' /\ pc' # pc) => (i' = 0 /\ nrule' = 1)
        /\ InPass => (Iteration \/ Stops)]_vars
  /\ [](InPass => <>(~InPass))

\* the Removal pass of an evaluation over three tokens has returned after the
\* last rule at the last position
C28_Witness ==
  /\ mode = "eval" /\ pc = "restore" /\ raised = ""
  /\ Len(qtokens) = 3 /\ i = 3
  /\ Texts(qtokens_detajweed) # Texts(qtokens)

\* C29: when a pass stops with the lookup error, the texts the pass has
\* written and the trace entries it has appended stay as they are: the step
\* that raises the error, and no step after it, puts back a text of the
\* tokens read or of a copy, or takes an entry off a trace
C29_NoRollback ==
  [][raised' = "KeyError" => (Untouched /\ i' = i /\ nrule' = nrule)]_vars

\* the Removal pass of an evaluation has written the sukun on the mim of the
\* first token, has appended the entry of M1 to its trace, and has stopped
\* with the lookup error at the second token, whose index has no row
C29_Witness ==
  /\ mode = "eval" /\ pc = "done" /\ raised = "KeyError"
  /\ qtokens = INFILE[11] /\ i = 1
  /\ qtokens_detajweed[1].tok = qtokens[1].tok \o <<\h06E1>>
  /\ qtokens_detajweed[2] = qtokens[2]
  /\ counts_rm["M1"] = << <<<<23,59,2>>, 1, TRUE>> >>

\* the position of the token of an index in the list of the run
PosOf(ind) == CHOOSE p \in DOMAIN qtokens : qtokens[p].ind = ind

\* entry e comes before entry f: at a lower position, or at the same
\* position as the boundary entry before the intra entry
Before(e, f) ==
  \/ PosOf(e[1]) < PosOf(f[1])
  \/ PosOf(e[1]) = PosOf(f[1]) /\ e[3] /\ ~f[3]

Ordered(traces) ==
  /\ \A k \in DOMAIN traces : traces[k][2] > 0
  /\ \A k, l \in DOMAIN traces : k < l => Before(traces[k], traces[l])

\* the trace of a rule after a step has the trace before the step as prefix
Extends(before, after) ==
  \A id_ \in DOMAIN before :
    /\ id_ \in DOMAIN after
    /\ Len(before[id_]) <= Len(after[id_])
    /\ SubSeq(after[id_], 1, Len(before[id_])) = before[id_]

\* C30: in a pass the trace of a rule only grows at its end; its entries are
\* in the order of the positions of their tokens, with at most one boundary
\* entry and one intra entry for a position, the boundary entry first, and
\* no entry has the count 0; so the Removal trace and the paired Restoral
\* trace of a rule are equal as lists exactly when they are equal as
\* multisets
C30_TraceOrder ==
  /\ [](/\ \A id_ \in DOMAIN counts_rm : Ordered(counts_rm[id_])
        /\ \A id_ \in DOMAIN counts_add : Ordered(counts_add[id_])
        /\ \A id_ \in DOMAIN counts_rm :
             (counts_rm[id_] = PairedTrace(id_))
               <=> (BagOf(counts_rm[id_]) = BagOf(PairedTrace(id_))))
  /\ [][Extends(counts_rm, counts_rm') /\ Extends(counts_add, counts_add')]_vars

\* an evaluation of the words of Q.12:16:1-2 has compared the traces: the
\* trace of MADD-hmz of each pass holds the boundary entry and then the intra
\* entry of the first word, and the two traces are equal
C30_Witness ==
  /\ mode = "eval" /\ pc = "texts" /\ qtokens = INFILE[12]
  /\ counts_rm["MADD-hmz"] = << <<<<12,16,1>>, 1, TRUE>>, <<<<12,16,1>>, 1, FALSE>> >>
  /\ counts_add["MADD-hmz"] = counts_rm["MADD-hmz"]
  /\ report["MADD-hmz"].match
====
